---------------------------- MODULE Spec2Model ----------------------------
(***************************************************************************)
(* Model of the BrainBurst auto-refresh pipeline (auto_refresh.py): the    *)
(* question store (bank file diplomacy_questions.json and pending file     *)
(* pending_questions.json), the validator, the deduplicator and the        *)
(* orchestrator main().                                                    *)
(*                                                                         *)
(* Python values are modelled as follows.                                  *)
(*   str   : a sequence of one-character strings, tagged  <<"str", s>>     *)
(*   list  : a sequence of values, tagged                 <<"list", l>>    *)
(*   int   : tagged                                       <<"num", n>>     *)
(*   None  : tagged                                       <<"null">>       *)
(*   dict  : a function from key names to values, tagged  <<"dict", f>>    *)
(* A question record, in a list or in a file, is such a tagged dict.        *)
(***************************************************************************)
EXTENDS Integers, Sequences, FiniteSets, TLC

(***************************************************************************)
(* Bounds of the model.                                                    *)
(***************************************************************************)
MaxBank == 4
MaxPending == 2
MaxBatch == 2

(***************************************************************************)
(* Generic helpers.                                                        *)
(***************************************************************************)
Max(a, b) == IF a >= b THEN a ELSE b

Min(a, b) == IF a <= b THEN a ELSE b

IsPrefix(s, t) == Len(s) <= Len(t) /\ SubSeq(t, 1, Len(s)) = s

SeqsUpTo(S, n) == UNION {[1..k -> S] : k \in 0..n}

(* dict operations: d[k] = v, d.pop(k, None), k in d *)
Put(d, k, v) == [x \in DOMAIN d \cup {k} |-> IF x = k THEN v ELSE d[x]]

Pop(d, k) == [x \in DOMAIN d \ {k} |-> d[x]]

(* a function with domain 1..n as the sequence it is *)
AsList(f) == f \o <<>>


(* the elements of a sequence *)
Range(seq) == {seq[i] : i \in 1..Len(seq)}

Has(d, k) == k \in DOMAIN d

(***************************************************************************)
(* Python values.                                                          *)
(***************************************************************************)
JStr(s) == <<"str", s>>

JList(l) == <<"list", l>>

JNum(n) == <<"num", n>>

JNull == <<"null">>

JDict(f) == <<"dict", f>>

IsStr(v) == v[1] = "str"

IsList(v) == v[1] = "list"

IsDict(v) == v[1] = "dict"

(* Python truthiness: "", [], {}, 0 and None are falsy *)
Truthy(v) ==
    CASE v[1] = "str" -> v[2] # <<>>
      [] v[1] = "list" -> v[2] # <<>>
      [] v[1] = "dict" -> DOMAIN v[2] # {}
      [] v[1] = "num" -> v[2] # 0
      [] OTHER -> FALSE

(***************************************************************************)
(* Strings: a string is a sequence of one-character strings.               *)
(***************************************************************************)
Digits == <<"0", "1", "2", "3", "4", "5", "6", "7", "8", "9">>

DigitChars == {Digits[i] : i \in 1..10}

DigitValues == [c \in DigitChars |-> (CHOOSE i \in 1..10 : Digits[i] = c) - 1]

DigitValue(c) == DigitValues[c]

Upper == <<"A", "B", "C", "D", "E", "F", "G", "H", "I", "J", "K", "L", "M",
           "N", "O", "P", "Q", "R", "S", "T", "U", "V", "W", "X", "Y", "Z">>

Lower == <<"a", "b", "c", "d", "e", "f", "g", "h", "i", "j", "k", "l", "m",
           "n", "o", "p", "q", "r", "s", "t", "u", "v", "w", "x", "y", "z">>

(* str.lower() on ASCII text *)
LowerChar(c) ==
    IF \E i \in 1..26 : Upper[i] = c
    THEN Lower[CHOOSE i \in 1..26 : Upper[i] = c]
    ELSE c

(* similarity without the .lower() calls *)
lower_identity(s) == s

lower(s) == AsList([i \in 1..Len(s) |-> LowerChar(s[i])])

Whitespace == {" ", "\t", "\n"}

RECURSIVE lstrip(_)
lstrip(s) == IF s # <<>> /\ Head(s) \in Whitespace THEN lstrip(Tail(s)) ELSE s

RECURSIVE rstrip(_)
rstrip(s) ==
    IF s # <<>> /\ s[Len(s)] \in Whitespace
    THEN rstrip(SubSeq(s, 1, Len(s) - 1))
    ELSE s

(* str.strip() *)
strip(s) == rstrip(lstrip(s))

(* str.find(sep) from position i on: the position of the first sep, or 0 *)
RECURSIVE find_from(_, _, _)
find_from(s, sep, i) ==
    IF i > Len(s) THEN 0
    ELSE IF s[i] = sep THEN i
    ELSE find_from(s, sep, i + 1)

(* str.split(sep) for a one-character separator: the list of pieces *)
RECURSIVE split(_, _)
split(s, sep) ==
    LET i == find_from(s, sep, 1)
    IN  IF i = 0 THEN <<s>>
        ELSE <<SubSeq(s, 1, i - 1)>> \o split(SubSeq(s, i + 1, Len(s)), sep)

(* int(s) succeeds on a non-empty string of decimal digits; anything else
   that can occur after qid.split("_")[1] raises ValueError *)
IsInt(s) == s # <<>> /\ \A i \in 1..Len(s) : s[i] \in DigitChars

(* the number written by the first n digits of s *)
RECURSIVE int_upto(_, _)
int_upto(s, n) == IF n = 0 THEN 0 ELSE 10 * int_upto(s, n - 1) + DigitValue(s[n])

int(s) == int_upto(s, Len(s))

(* str(n) for n >= 0 *)
RECURSIVE str(_)
str(n) == IF n < 10 THEN <<Digits[n + 1]>> ELSE str(n \div 10) \o <<Digits[(n % 10) + 1]>>

(* format n with "{:03d}": zero-padded to a minimum width of 3 *)
RECURSIVE zfill(_, _)
zfill(s, w) == IF Len(s) >= w THEN s ELSE zfill(<<"0">> \o s, w)

IdWidth == 3

(* variant: only the last IdWidth digits of the number are kept *)
fmt03d_last_digits(n) == zfill(str(n % (10 ^ IdWidth)), IdWidth)

fmt03d(n) == zfill(str(n), IdWidth)

DiploPrefix == <<"d", "i", "p", "l", "o", "_">>

PendingPrefix == <<"p", "e", "n", "d", "i", "n", "g", "_">>

(* f"diplo_{n:03d}" *)
diplo_id(n) == JStr(DiploPrefix \o fmt03d(n))

(* f"pending_{n:03d}" *)
pending_id(n) == JStr(PendingPrefix \o fmt03d(n))

StartsWith(s, p) == Len(s) >= Len(p) /\ SubSeq(s, 1, Len(p)) = p


(***************************************************************************)
(* Deduplication: similarity() is difflib.SequenceMatcher(None, a.lower(), *)
(* b.lower()).ratio() = 2*M/T, M the total size of the matching blocks     *)
(* found by repeatedly taking the longest common block (earliest in a,     *)
(* then earliest in b) and recursing to its left and right, T the sum of   *)
(* the lengths; 1.0 when both are empty.  The ratio is kept exact as the   *)
(* pair <<numerator, denominator>>.  (difflib's autojunk heuristic only    *)
(* applies to second arguments of 200 or more characters.)                 *)
(***************************************************************************)
RECURSIVE MatchLen(_, _, _, _)
MatchLen(a, b, i, j) ==
    IF i <= Len(a) /\ j <= Len(b) /\ a[i] = b[j]
    THEN 1 + MatchLen(a, b, i + 1, j + 1)
    ELSE 0

(* SequenceMatcher.find_longest_match over the whole of a and b: <<i, j, k>> *)
find_longest_match(a, b) ==
    LET lens == {MatchLen(a, b, i, j) : i \in 1..Len(a), j \in 1..Len(b)}
        k == IF lens = {} THEN 0 ELSE CHOOSE x \in lens : \A y \in lens : y <= x
    IN  IF k = 0 THEN <<1, 1, 0>>
        ELSE LET i == CHOOSE x \in 1..Len(a) :
                          /\ \E j \in 1..Len(b) : MatchLen(a, b, x, j) = k
                          /\ \A y \in 1..(x - 1) :
                                 \A j \in 1..Len(b) : MatchLen(a, b, y, j) # k
                 j == CHOOSE x \in 1..Len(b) :
                          /\ MatchLen(a, b, i, x) = k
                          /\ \A y \in 1..(x - 1) : MatchLen(a, b, i, y) # k
             IN  <<i, j, k>>

(* sum of the sizes of SequenceMatcher.get_matching_blocks(); the longest
   match m is bound once, as a value, for both recursive calls *)
RECURSIVE matching_size(_, _)
matching_size(a, b) ==
    IF a = <<>> \/ b = <<>> THEN 0
    ELSE CHOOSE size \in
             {IF m[3] = 0 THEN 0
              ELSE m[3]
                   + matching_size(SubSeq(a, 1, m[1] - 1), SubSeq(b, 1, m[2] - 1))
                   + matching_size(SubSeq(a, m[1] + m[3], Len(a)),
                                   SubSeq(b, m[2] + m[3], Len(b))) :
              m \in {find_longest_match(a, b)}} : TRUE

ratio(a, b) ==
    IF Len(a) + Len(b) = 0 THEN <<1, 1>>
    ELSE <<2 * matching_size(a, b), Len(a) + Len(b)>>

(* similarity(a, b) on the characters of two str values *)
similarity(a, b) == ratio(lower(a), lower(b))

DedupThresholdNum == 85

DedupThresholdDen == 100

DEDUP_THRESHOLD_80 == <<80, DedupThresholdDen>>

DEDUP_THRESHOLD == <<DedupThresholdNum, DedupThresholdDen>>

(* r >= t for exact ratios *)
RatioGE(r, t) == r[1] * t[2] >= t[1] * r[2]

(* One inner loop of deduplicate: compare the tagged value q_text with the
   tagged values texts in order.  "dupe" when the first decisive comparison
   reaches the threshold, "raise" when it involves a value without .lower()
   (AttributeError), "none" when the loop ends without a match. *)
scan_texts(q_text, texts) ==
    LET decisive == {i \in 1..Len(texts) :
                        \/ ~IsStr(q_text)
                        \/ ~IsStr(texts[i])
                        \/ RatioGE(similarity(q_text[2], texts[i][2]), DEDUP_THRESHOLD)}
    IN  IF decisive = {} THEN "none"
        ELSE LET i == CHOOSE x \in decisive : \A y \in decisive : x <= y
             IN  IF ~IsStr(q_text) \/ ~IsStr(texts[i]) THEN "raise" ELSE "dupe"

(* deduplicate without the second inner loop (over unique) *)
RECURSIVE dedup_loop_bank_only(_, _, _, _, _)
dedup_loop_bank_only(new_qs, existing_texts, i, unique, dupes) ==
    IF i > Len(new_qs) THEN [unique |-> unique, dupes |-> dupes, raised |-> FALSE]
    ELSE LET q == new_qs[i]
             vsBank == scan_texts(q[2]["question"], existing_texts)
         IN  IF vsBank = "raise"
             THEN [unique |-> unique, dupes |-> dupes, raised |-> TRUE]
             ELSE IF vsBank = "dupe"
             THEN dedup_loop_bank_only(new_qs, existing_texts, i + 1, unique, Append(dupes, q))
             ELSE dedup_loop_bank_only(new_qs, existing_texts, i + 1, Append(unique, q), dupes)

(* deduplicate keeping the later of two similar candidates of a batch: the
   earlier one is moved from unique to dupes *)
RECURSIVE dedup_loop_keep_last(_, _, _, _, _)
dedup_loop_keep_last(new_qs, existing_texts, i, unique, dupes) ==
    IF i > Len(new_qs) THEN [unique |-> unique, dupes |-> dupes, raised |-> FALSE]
    ELSE LET q == new_qs[i]
             q_text == q[2]["question"]
             vsBank == scan_texts(q_text, existing_texts)
             near == {k \in 1..Len(unique) :
                         scan_texts(q_text, <<unique[k][2]["question"]>>) = "dupe"}
         IN  IF vsBank = "raise"
             THEN [unique |-> unique, dupes |-> dupes, raised |-> TRUE]
             ELSE IF vsBank = "dupe"
             THEN dedup_loop_keep_last(new_qs, existing_texts, i + 1, unique, Append(dupes, q))
             ELSE IF near # {}
             THEN LET k == CHOOSE x \in near : \A y \in near : x <= y
                  IN  dedup_loop_keep_last(new_qs, existing_texts, i + 1,
                          Append(SubSeq(unique, 1, k - 1) \o SubSeq(unique, k + 1, Len(unique)), q),
                          Append(dupes, unique[k]))
             ELSE dedup_loop_keep_last(new_qs, existing_texts, i + 1, Append(unique, q), dupes)

(* the loop of deduplicate from position i on, with the lists built so far *)
RECURSIVE dedup_loop(_, _, _, _, _)
dedup_loop(new_qs, existing_texts, i, unique, dupes) ==
    IF i > Len(new_qs) THEN [unique |-> unique, dupes |-> dupes, raised |-> FALSE]
    ELSE LET q == new_qs[i]
             q_text == q[2]["question"]
             vsBank == scan_texts(q_text, existing_texts)
             vsBatch == scan_texts(q_text, AsList([k \in 1..Len(unique) |-> unique[k][2]["question"]]))
         IN  IF vsBank = "raise" \/ (vsBank = "none" /\ vsBatch = "raise")
             THEN [unique |-> unique, dupes |-> dupes, raised |-> TRUE]
             ELSE IF vsBank = "dupe" \/ vsBatch = "dupe"
             THEN dedup_loop(new_qs, existing_texts, i + 1, unique, Append(dupes, q))
             ELSE dedup_loop(new_qs, existing_texts, i + 1, Append(unique, q), dupes)

deduplicate(new_qs, existing_qs) ==
    dedup_loop(new_qs,
               AsList([k \in 1..Len(existing_qs) |-> existing_qs[k][2]["question"]]),
               1, <<>>, <<>>)

(***************************************************************************)
(* File I/O.  A file is [exists, data]: data is the JSON array it holds.   *)
(***************************************************************************)
NoFile == [exists |-> FALSE, data |-> <<>>]

(* the data of a file whose text is not JSON; load_questions returning it
   stands for json.load raising JSONDecodeError *)
Unparsable == <<<<"unparsable">>>>

(* load_questions answering [] where json.load raises *)
load_questions_empty_on_error(file) ==
    IF ~file.exists \/ file.data = Unparsable THEN <<>> ELSE file.data

load_questions(file) == IF ~file.exists THEN <<>> ELSE file.data

save_questions(questions) == [exists |-> TRUE, data |-> questions]

(* Path.unlink(missing_ok=True) *)
unlink == NoFile

(* the number get_next_id reads from one record: int(qid.split("_")[1]),
   or -1 when IndexError/ValueError is caught and the record is skipped *)
id_number(q) ==
    LET qid == IF Has(q[2], "id") THEN q[2]["id"] ELSE diplo_id(0)
        parts == split(qid[2], "_")
    IN  IF Len(parts) >= 2 /\ IsInt(parts[2]) THEN int(parts[2]) ELSE -1

(* the largest id number among existing[lo..hi], lo <= hi; the range is
   halved so that a bank of a thousand records is within the evaluator's
   recursion depth *)
RECURSIVE max_id_between(_, _, _)
max_id_between(existing, lo, hi) ==
    IF lo = hi THEN id_number(existing[lo])
    ELSE LET mid == (lo + hi) \div 2
         IN  Max(max_id_between(existing, lo, mid), max_id_between(existing, mid + 1, hi))

(* the loop of get_next_id from record i on, max_id being the maximum so
   far *)
max_id_from(existing, i, max_id) ==
    IF i > Len(existing) THEN max_id
    ELSE Max(max_id, max_id_between(existing, i, Len(existing)))

(* variant: the increment past the maximum is left out *)
get_next_id_no_increment(existing) ==
    IF existing = <<>> THEN 0 ELSE max_id_from(existing, 1, 0)

get_next_id(existing) ==
    IF existing = <<>> THEN 0 ELSE max_id_from(existing, 1, 0) + 1

(* variant: the file is rewritten with the new questions only *)
append_questions_overwrite(new_qs, bank) ==
    LET existing == load_questions(bank)
        next_id == get_next_id(existing)
        withIds == AsList([i \in 1..Len(new_qs) |->
                       JDict(Put(new_qs[i][2], "id", diplo_id(next_id + i - 1)))])
    IN  [bank |-> save_questions(withIds), ret |-> Len(new_qs)]

(* variant: every new question gets the id next_id *)
append_questions_same_id(new_qs, bank) ==
    LET existing == load_questions(bank)
        next_id == get_next_id(existing)
        withIds == AsList([i \in 1..Len(new_qs) |->
                       JDict(Put(new_qs[i][2], "id", diplo_id(next_id)))])
    IN  [bank |-> save_questions(existing \o withIds), ret |-> Len(new_qs)]

(* append_questions: the new bank file and the returned count *)
append_questions(new_qs, bank) ==
    LET existing == load_questions(bank)
        next_id == get_next_id(existing)
        withIds == AsList([i \in 1..Len(new_qs) |->
                       JDict(Put(new_qs[i][2], "id", diplo_id(next_id + i - 1)))])
    IN  [bank |-> save_questions(existing \o withIds), ret |-> Len(new_qs)]

(* variant: the numbering starts at 0 whatever the pending file holds *)
stage_for_review_from_zero(questions, pend, now) ==
    LET pending == load_questions(pend)
        next_temp == 0
        staged == AsList([i \in 1..Len(questions) |->
                      JDict(Put(Put(questions[i][2], "id", pending_id(next_temp + i - 1)),
                                "staged_at", JStr(now[i])))])
    IN  save_questions(pending \o staged)

(* stage_for_review: the new pending file; now[i] is the clock reading
   taken for the i-th question *)
stage_for_review(questions, pend, now) ==
    LET pending == load_questions(pend)
        next_temp == Len(pending)
        staged == AsList([i \in 1..Len(questions) |->
                      JDict(Put(Put(questions[i][2], "id", pending_id(next_temp + i - 1)),
                                "staged_at", JStr(now[i])))])
    IN  save_questions(pending \o staged)

(* variant: the staging timestamp is not stripped *)
approve_pending_keep_staged_at(bank, pend) ==
    LET pending == load_questions(pend)
        stripped == AsList([i \in 1..Len(pending) |-> JDict(Pop(pending[i][2], "id"))])
        r == append_questions(stripped, bank)
    IN  IF pending = <<>>
        THEN [bank |-> bank, pending |-> pend, ret |-> 0]
        ELSE [bank |-> r.bank, pending |-> unlink, ret |-> r.ret]

(* variant: only the first pending record is merged *)
approve_pending_first_only(bank, pend) ==
    LET pending == load_questions(pend)
        stripped == AsList([i \in 1..Min(1, Len(pending)) |->
                        JDict(Pop(Pop(pending[i][2], "staged_at"), "id"))])
        r == append_questions(stripped, bank)
    IN  IF pending = <<>>
        THEN [bank |-> bank, pending |-> pend, ret |-> 0]
        ELSE [bank |-> r.bank, pending |-> unlink, ret |-> r.ret]

(* variant: the pending file is not deleted after the merge *)
approve_pending_no_unlink(bank, pend) ==
    LET pending == load_questions(pend)
        stripped == AsList([i \in 1..Len(pending) |->
                        JDict(Pop(Pop(pending[i][2], "staged_at"), "id"))])
        r == append_questions(stripped, bank)
    IN  IF pending = <<>>
        THEN [bank |-> bank, pending |-> pend, ret |-> 0]
        ELSE [bank |-> r.bank, pending |-> pend, ret |-> r.ret]

(* approve_pending: the new bank and pending files and the returned count *)
approve_pending(bank, pend) ==
    LET pending == load_questions(pend)
        stripped == AsList([i \in 1..Len(pending) |->
                        JDict(Pop(Pop(pending[i][2], "staged_at"), "id"))])
        r == append_questions(stripped, bank)
    IN  IF pending = <<>>
        THEN [bank |-> bank, pending |-> pend, ret |-> 0]
        ELSE [bank |-> r.bank, pending |-> unlink, ret |-> r.ret]

(***************************************************************************)
(* Validation.  Text whose characters the code never looks into (names,    *)
(* answers, labels) is a str of one token.                                 *)
(***************************************************************************)
Tok(s) == JStr(<<s>>)

VALID_CATEGORIES ==
    {Tok("Foreign Policy Disagreements"), Tok("UN & Multilateral Diplomacy"),
     Tok("EU & NATO Affairs"), Tok("Asia-Pacific Geopolitics"),
     Tok("Middle East Diplomacy"), Tok("Africa & Global South Diplomacy"),
     Tok("Bilateral Tensions & Alliances"), Tok("Economic Diplomacy & Sanctions"),
     Tok("International Law & Treaties"), Tok("US Foreign Policy"),
     Tok("Truth vs Narrative"), Tok("Diplomatic Language & Spin"),
     Tok("Historical Diplomatic Milestones"),
     Tok("Intelligence & Espionage in Diplomacy"),
     Tok("Cyber Diplomacy & Tech Geopolitics")}

VALID_DIFFICULTIES_with_extreme == {Tok("easy"), Tok("medium"), Tok("hard"), Tok("extreme")}

VALID_DIFFICULTIES == {Tok("easy"), Tok("medium"), Tok("hard")}

REQUIRED_FIELDS ==
    <<"category", "difficulty", "question", "correct_answer", "incorrect_answers", "source">>

(* one entry of a rejected question's error list; field and n are the
   values formatted into the message *)
Err(kind, field, n) == [kind |-> kind, field |-> field, n |-> n]

(* the elements a for loop over the value v visits: a list's elements, a
   str's characters, a dict's keys (the keys of the modelled dicts are
   non-blank names, which the loop below passes over); raised when v is
   not iterable (TypeError) *)
iterate(v) ==
    CASE v[1] = "list" -> [raised |-> FALSE, items |-> v[2]]
      [] v[1] = "str" -> [raised |-> FALSE,
                          items |-> AsList([i \in 1..Len(v[2]) |-> JStr(<<v[2][i]>>)])]
      [] v[1] = "dict" -> [raised |-> FALSE, items |-> <<>>]
      [] OTHER -> [raised |-> TRUE, items |-> <<>>]

(* errors of the required-field loop: one per field that is missing or falsy *)
RECURSIVE missing_errors(_, _)
missing_errors(f, i) ==
    IF i > Len(REQUIRED_FIELDS) THEN <<>>
    ELSE (IF ~Has(f, REQUIRED_FIELDS[i]) \/ ~Truthy(f[REQUIRED_FIELDS[i]])
          THEN <<Err("missing or empty field", REQUIRED_FIELDS[i], 0)>>
          ELSE <<>>) \o missing_errors(f, i + 1)

(* the loop over incorrect_answers from position j on: raised if an element
   has no .strip() (AttributeError) *)
RECURSIVE answer_errors(_, _)
answer_errors(answers, j) ==
    IF j > Len(answers) THEN [raised |-> FALSE, errors |-> <<>>]
    ELSE IF ~IsStr(answers[j]) THEN [raised |-> TRUE, errors |-> <<>>]
    ELSE LET rest == answer_errors(answers, j + 1)
         IN  [raised |-> rest.raised,
              errors |-> (IF strip(answers[j][2]) = <<>>
                          THEN <<Err("incorrect_answers[j] is empty", "", j - 1)>>
                          ELSE <<>>) \o rest.errors]

(* the category check records no reason for a category outside VALID_CATEGORIES:
   it only logs a warning *)
category_errors_reject(f) ==
    IF f["category"] \notin VALID_CATEGORIES
    THEN <<Err("invalid category", "", 0)>>
    ELSE <<>>

category_errors(f) == <<>>

(* the body of the loop of validate_questions for one element q:
   [raised, errors, warned].  "field not in q" raises TypeError on a number
   or None and is true of a list or str that holds none of the field names. *)
validate_one(q) ==
    IF q[1] \in {"num", "null"}
    THEN [raised |-> TRUE, errors |-> <<>>, warned |-> FALSE]
    ELSE IF q[1] # "dict"
    THEN [raised |-> FALSE,
          errors |-> AsList([i \in 1..Len(REQUIRED_FIELDS) |->
                         Err("missing or empty field", REQUIRED_FIELDS[i], 0)]),
          warned |-> FALSE]
    ELSE
    LET f == q[2]
        missing == missing_errors(f, 1)
        ia == f["incorrect_answers"]
        e_list == IF ~IsList(ia) THEN <<Err("incorrect_answers must be a list", "", 0)>>
                  ELSE IF Len(ia[2]) # 3
                  THEN <<Err("need exactly 3 incorrect_answers", "", Len(ia[2]))>>
                  ELSE <<>>
        e_diff == IF f["difficulty"] \notin VALID_DIFFICULTIES
                  THEN <<Err("invalid difficulty", "", 0)>>
                  ELSE <<>>
        warn == f["category"] \notin VALID_CATEGORIES
        ca == f["correct_answer"]
        e_ca == IF strip(ca[2]) = <<>> THEN <<Err("correct_answer is empty", "", 0)>> ELSE <<>>
        it == iterate(ia)
        e_ans == answer_errors(it.items, 1)
    IN  IF missing # <<>>
        THEN [raised |-> FALSE, errors |-> missing, warned |-> FALSE]
        ELSE IF ~IsStr(ca) \/ it.raised \/ e_ans.raised
        THEN [raised |-> TRUE, errors |-> e_list \o e_diff \o category_errors(f),
              warned |-> warn]
        ELSE [raised |-> FALSE,
              errors |-> e_list \o e_diff \o category_errors(f) \o e_ca \o e_ans.errors,
              warned |-> warn]

(* validate_loop with valid.insert(0, q) in place of valid.append(q) *)
RECURSIVE validate_loop_prepend(_, _, _, _)
validate_loop_prepend(questions, i, valid, invalid) ==
    IF i > Len(questions) THEN [valid |-> valid, invalid |-> invalid, raised |-> FALSE]
    ELSE LET r == validate_one(questions[i])
         IN  IF r.raised THEN [valid |-> valid, invalid |-> invalid, raised |-> TRUE]
             ELSE IF r.errors # <<>>
             THEN validate_loop_prepend(questions, i + 1, valid,
                                Append(invalid, [question |-> questions[i],
                                                 errors |-> r.errors]))
             ELSE validate_loop_prepend(questions, i + 1, <<questions[i]>> \o valid, invalid)

RECURSIVE validate_loop(_, _, _, _)
validate_loop(questions, i, valid, invalid) ==
    IF i > Len(questions) THEN [valid |-> valid, invalid |-> invalid, raised |-> FALSE]
    ELSE LET r == validate_one(questions[i])
         IN  IF r.raised THEN [valid |-> valid, invalid |-> invalid, raised |-> TRUE]
             ELSE IF r.errors # <<>>
             THEN validate_loop(questions, i + 1, valid,
                                Append(invalid, [question |-> questions[i],
                                                 errors |-> r.errors]))
             ELSE validate_loop(questions, i + 1, Append(valid, questions[i]), invalid)

validate_questions(questions) == validate_loop(questions, 1, <<>>, <<>>)

(***************************************************************************)
(* RSS fetching.  The outcome of feedparser.parse for one feed is          *)
(* [raises, bozo, entries]; an entry is a function from the keys it has    *)
(* (title, summary, description, link) to character sequences.             *)
(***************************************************************************)
RSS_FEEDS ==
    <<"Reuters World", "BBC World", "Al Jazeera", "The Guardian World", "AP News World">>

SummaryLimit == 500

DefaultMaxPerFeed == 10

(* entry.get(key, default) *)
entry_get(entry, key, default) == IF Has(entry, key) THEN entry[key] ELSE default

(* re.sub(r"<[^>]+>", "", s): delete every "<", one or more characters
   other than ">", ">" *)
RECURSIVE strip_tags(_)
strip_tags(s) ==
    LET opens == {i \in 1..Len(s) :
                     /\ s[i] = "<"
                     /\ i + 1 <= Len(s) /\ s[i + 1] # ">"
                     /\ \E j \in (i + 2)..Len(s) : s[j] = ">"}
    IN  IF opens = {} THEN s
        ELSE LET i == CHOOSE x \in opens : \A y \in opens : x <= y
                 j == CHOOSE x \in (i + 2)..Len(s) :
                          s[x] = ">" /\ \A y \in (i + 2)..(x - 1) : s[y] # ">"
             IN  SubSeq(s, 1, i - 1) \o strip_tags(SubSeq(s, j + 1, Len(s)))

(* news_item without the "if title:" test *)
news_item_untitled(entry, name) ==
    LET title == strip(entry_get(entry, "title", <<>>))
        summary == strip(strip_tags(strip(
                       entry_get(entry, "summary", entry_get(entry, "description", <<>>)))))
    IN  <<[title |-> title,
           summary |-> IF summary # <<>>
                       THEN SubSeq(summary, 1, Min(Len(summary), SummaryLimit))
                       ELSE title,
           source |-> name,
           link |-> entry_get(entry, "link", <<>>)]>>

(* the item built from one entry of the feed called name: <<>> or <<item>> *)
news_item(entry, name) ==
    LET title == strip(entry_get(entry, "title", <<>>))
        summary == strip(strip_tags(strip(
                       entry_get(entry, "summary", entry_get(entry, "description", <<>>)))))
    IN  IF title = <<>> THEN <<>>
        ELSE <<[title |-> title,
                summary |-> IF summary # <<>>
                            THEN SubSeq(summary, 1, Min(Len(summary), SummaryLimit))
                            ELSE title,
                source |-> name,
                link |-> entry_get(entry, "link", <<>>)]>>

RECURSIVE feed_items(_, _, _)
feed_items(entries, name, k) ==
    IF k > Len(entries) THEN <<>>
    ELSE news_item(entries[k], name) \o feed_items(entries, name, k + 1)

(* fetch_news giving up at the first failing feed *)
RECURSIVE fetch_loop_stop_at_failure(_, _, _)
fetch_loop_stop_at_failure(max_per_feed, outcomes, i) ==
    IF i > Len(RSS_FEEDS) THEN <<>>
    ELSE LET o == outcomes[i]
             taken == SubSeq(o.entries, 1, Min(Len(o.entries), max_per_feed))
         IN  IF o.raises \/ (o.bozo /\ o.entries = <<>>)
             THEN <<>>
             ELSE feed_items(taken, RSS_FEEDS[i], 1)
                  \o fetch_loop_stop_at_failure(max_per_feed, outcomes, i + 1)

(* the loop of fetch_news over the feeds from position i on *)
RECURSIVE fetch_loop(_, _, _)
fetch_loop(max_per_feed, outcomes, i) ==
    IF i > Len(RSS_FEEDS) THEN <<>>
    ELSE LET o == outcomes[i]
             taken == SubSeq(o.entries, 1, Min(Len(o.entries), max_per_feed))
         IN  (IF o.raises \/ (o.bozo /\ o.entries = <<>>)
              THEN <<>>
              ELSE feed_items(taken, RSS_FEEDS[i], 1))
             \o fetch_loop(max_per_feed, outcomes, i + 1)

fetch_news(max_per_feed, outcomes) == fetch_loop(max_per_feed, outcomes, 1)

(***************************************************************************)
(* Question generation.  The outcome of the API call is an APIError or a   *)
(* response text [open, body, close]: the opening code fence ("none",      *)
(* "bare", "json", or "other": a fence with another tag), the text         *)
(* between, and whether a closing fence follows.  body is [json, value]:   *)
(* whether the text is JSON and the value it parses to.                    *)
(***************************************************************************)
ContextLimit == 15

(* the text handed to json.loads parses: the fences are removed only when
   the text starts with one, and only a bare or json-tagged opening fence
   is removed whole *)
json_loads_ok(text) ==
    /\ text.body.json
    /\ text.open \in {"none", "bare", "json"}
    /\ (text.open = "none" => ~text.close)

(* generate_questions returning [] where the code calls sys.exit(1) *)
generate_questions_return_without_key(news_items, count, api_key, outcome) ==
    LET selected_news == SubSeq(news_items, 1, Min(Len(news_items), ContextLimit))
    IN  IF ~api_key \/ selected_news = <<>>
        THEN [kind |-> "return", value |-> <<>>, requested |-> FALSE]
        ELSE IF outcome.kind = "APIError" \/ ~json_loads_ok(outcome.text)
                \/ ~IsList(outcome.text.body.value)
        THEN [kind |-> "return", value |-> <<>>, requested |-> TRUE]
        ELSE [kind |-> "return", value |-> outcome.text.body.value[2], requested |-> TRUE]

(* generate_questions: [kind, value, requested].  kind is "return" with the
   returned list, or "exit" (sys.exit(1)); requested tells whether the
   generation request was sent *)
generate_questions(news_items, count, api_key, outcome) ==
    LET selected_news == SubSeq(news_items, 1, Min(Len(news_items), ContextLimit))
    IN  IF ~api_key
        THEN [kind |-> "exit", value |-> <<>>, requested |-> FALSE]
        ELSE IF selected_news = <<>>
        THEN [kind |-> "return", value |-> <<>>, requested |-> FALSE]
        ELSE IF outcome.kind = "APIError"
        THEN [kind |-> "return", value |-> <<>>, requested |-> TRUE]
        ELSE IF ~json_loads_ok(outcome.text)
        THEN [kind |-> "return", value |-> <<>>, requested |-> TRUE]
        ELSE IF ~IsList(outcome.text.body.value)
        THEN [kind |-> "return", value |-> <<>>, requested |-> TRUE]
        ELSE [kind |-> "return", value |-> outcome.text.body.value[2], requested |-> TRUE]

(***************************************************************************)
(* State.                                                                  *)
(*   bankFile, pendingFile : QUESTIONS_FILE and PENDING_FILE on disk       *)
(*   pc           : where main() stands; "idle" before a run, "done" after *)
(*   args         : the parsed command line of the run                     *)
(*   news, raw_questions, valid, unique : main()'s locals, each kept while *)
(*                  the code still reads it                                *)
(*   exit_code    : the process exit status of the finished run            *)
(*   result       : the terminal message the finished run printed          *)
(*   calls        : the pipeline functions main() has called in this run   *)
(*   net          : the network requests made in this run                  *)
(*   bank0, pend0 : the two files as they were when the run started        *)
(*   runs         : the number of runs of main() started so far            *)
(*   call         : the latest direct call of a pure function: its name,  *)
(*                  arguments and result                                   *)
(*   procs        : the concurrent invocations of append_questions: for    *)
(*                  each its position, its argument, the bank file it     *)
(*                  loaded, its return value and its place in the order   *)
(*                  of the saves                                          *)
(*   serve        : the Streamlit server running the Diplomacy page: the   *)
(*                  st.cache_data entry of load_questions, the number of   *)
(*                  sessions opened, and for the open session the value    *)
(*                  of ALL_QUESTIONS, its session_state and the latest     *)
(*                  call of select_questions                               *)
(*   game         : the st.session_state of one browser session playing  *)
(*                  on the Play and Diplomacy pages, the page it shows and *)
(*                  the number of rounds it has started                    *)
(*   last         : the latest direct call of a store function: its name,  *)
(*                  argument, return value and the files before it, and    *)
(*                  the name of the call before it and whether that call   *)
(*                  returned a non-zero count                              *)
(***************************************************************************)
VARIABLES bankFile, pendingFile, pc, args, news, raw_questions, valid, unique,
          exit_code, result, calls, net, bank0, pend0, runs, last, call, procs, serve, game

vars == <<bankFile, pendingFile, pc, args, news, raw_questions, valid, unique,
          exit_code, result, calls, net, bank0, pend0, runs, last, call, procs, serve, game>>

runVars == <<pc, args, news, raw_questions, valid, unique,
             exit_code, result, calls, net, bank0, pend0, runs, call, procs, serve, game>>

(***************************************************************************)
(* Inputs.                                                                 *)
(***************************************************************************)
MaxCount == 1

(* runs of main() in one behaviour *)
MaxRuns == 2

TextWho == <<"W", "h", "o", "?">>

TextWhoLower == <<"w", "h", "o", "?">>

TextWhy == <<"W", "h", "y", "?">>

(* a generated question with the given text and difficulty, its other
   fields well-formed *)
MkQ(text, difficulty) ==
    JDict([category |-> Tok("US Foreign Policy"),
           difficulty |-> Tok(difficulty),
           question |-> JStr(text),
           correct_answer |-> Tok("yes"),
           incorrect_answers |-> JList(<<Tok("no"), Tok("maybe"), Tok("never")>>),
           source |-> Tok("Reuters")])

(* elements of a generation response: three well-formed questions (two of
   them differing only in case), one with an invalid difficulty, and one
   element that is not an object *)
GenCandidates ==
    {MkQ(TextWho, "easy"), MkQ(TextWhoLower, "medium"), MkQ(TextWhy, "hard"),
     MkQ(TextWhy, "extreme"), JNum(7)}

(* questions handed to the store functions directly *)
StoreCandidates == {MkQ(TextWho, "easy"), MkQ(TextWhy, "hard")}

(* the argument lists of the direct calls *)
StoreBatches == SeqsUpTo(StoreCandidates, MaxBatch)

(* clock readings of datetime.now(timezone.utc).isoformat() *)
Timestamps == {<<"2026-01-01T00:00:00+00:00">>}

FeedRaises == [raises |-> TRUE, bozo |-> FALSE, entries |-> <<>>]

FeedBozo == [raises |-> FALSE, bozo |-> TRUE, entries |-> <<>>]

FeedOk == [raises |-> FALSE, bozo |-> FALSE,
           entries |-> <<[title |-> <<"T">>, summary |-> <<"<", "b", ">", "s">>]>>]

(* what the five feeds do in one fetch: none delivers, one delivers, all
   deliver *)
FeedOutcomes ==
    {<<FeedRaises, FeedBozo, FeedRaises, FeedBozo, FeedRaises>>,
     <<FeedBozo, FeedOk, FeedRaises, FeedBozo, FeedRaises>>,
     <<FeedOk, FeedOk, FeedOk, FeedOk, FeedOk>>}

(* the parsed command line; --verbose only sets the log level and is left
   out *)
ArgSet == [count : 1..MaxCount, review : BOOLEAN, approve : BOOLEAN,
           dry_run : BOOLEAN]

NoArgs == [count |-> 1, review |-> FALSE, approve |-> FALSE, dry_run |-> FALSE]

NoCall == [op |-> "none", arg |-> <<>>, ret |-> 0, bank0 |-> NoFile, pend0 |-> NoFile,
           prev |-> "none", prev_nonzero |-> FALSE]

NoPureCall == [fn |-> "none", arg |-> <<>>, ret |-> <<>>]

(* no concurrent invocations *)
NoProcs == <<>>

(* the question-serving page is not running *)
NoServe == <<>>

(* no browser session is playing *)
NoGame == <<>>

(* the response texts the generation call can return when at most n
   elements fit *)
ResponseBodies(n) ==
    {[json |-> FALSE, value |-> JNull], [json |-> TRUE, value |-> JNum(7)]}
    \cup {[json |-> TRUE, value |-> JList(l)] : l \in SeqsUpTo(GenCandidates, n)}

ApiError ==
    [kind |-> "APIError",
     text |-> [open |-> "none", body |-> [json |-> FALSE, value |-> JNull], close |-> FALSE]]

(* the bodies that also come wrapped in code fences *)
FencedBodies ==
    {[json |-> FALSE, value |-> JNull],
     [json |-> TRUE, value |-> JList(<<>>)],
     [json |-> TRUE, value |-> JList(<<MkQ(TextWhy, "hard")>>)]}

(* every body unfenced, and three of them with an opening fence (bare,
   tagged json, or with another tag), a closing fence, or both *)
ApiOutcomes(n) ==
    {ApiError}
    \cup {[kind |-> "text", text |-> [open |-> "none", body |-> b, close |-> FALSE]] :
             b \in ResponseBodies(n)}
    \cup {[kind |-> "text", text |-> [open |-> o, body |-> b, close |-> c]] :
             o \in {"none", "bare", "json", "other"},
             b \in FencedBodies \cap ResponseBodies(n),
             c \in BOOLEAN}

(* the environment of one generate_questions call: whether the credential
   is set and, when it is, the outcome of the API call *)
GenerateInputs(n) ==
    {[api_key |-> FALSE, outcome |-> ApiError]}
    \cup {[api_key |-> TRUE, outcome |-> o] : o \in ApiOutcomes(n)}

(* GenerateInputs for every number of elements a run can still store *)
GenerateInputsUpTo == [n \in 0..MaxBatch |-> GenerateInputs(n)]

(* the stores before the first run: the bank missing, empty, or holding one
   committed question; nothing pending, or one staged question *)
InitialBanks ==
    {NoFile, save_questions(<<>>),
     append_questions(<<MkQ(TextWho, "easy")>>, NoFile).bank}

(* a bank file with malformed content *)
CorruptBank == [exists |-> TRUE, data |-> Unparsable]

InitialPendings ==
    {NoFile,
     stage_for_review(<<MkQ(TextWhy, "hard")>>, NoFile,
                      <<CHOOSE t \in Timestamps : TRUE>>)}

Init ==
    /\ bankFile \in {NoFile, save_questions(<<>>)}
    /\ pendingFile = NoFile
    /\ pc = "idle"
    /\ args = NoArgs
    /\ news = <<>>
    /\ raw_questions = <<>>
    /\ valid = <<>>
    /\ unique = <<>>
    /\ exit_code = 0
    /\ result = "none"
    /\ calls = <<>>
    /\ net = <<>>
    /\ bank0 = bankFile
    /\ pend0 = pendingFile
    /\ runs = 0
    /\ last = NoCall
    /\ call = NoPureCall
    /\ procs = NoProcs
    /\ serve = NoServe
    /\ game = NoGame

(* before the first run of main(): the stores as earlier runs left them *)
InitRun ==
    /\ bankFile \in InitialBanks \cup {CorruptBank}
    /\ pendingFile \in InitialPendings
    /\ pc = "idle"
    /\ args = NoArgs
    /\ news = <<>>
    /\ raw_questions = <<>>
    /\ valid = <<>>
    /\ unique = <<>>
    /\ exit_code = 0
    /\ result = "none"
    /\ calls = <<>>
    /\ net = <<>>
    /\ bank0 = bankFile
    /\ pend0 = pendingFile
    /\ runs = 0
    /\ last = NoCall
    /\ call = NoPureCall
    /\ procs = NoProcs
    /\ serve = NoServe
    /\ game = NoGame

(***************************************************************************)
(* Direct calls of the store functions (one call is one step).             *)
(***************************************************************************)
CallAppend ==
    \E qs \in StoreBatches :
        /\ pc = "idle"
        /\ Len(load_questions(bankFile)) + Len(qs) <= MaxBank
        /\ LET r == append_questions(qs, bankFile)
           IN  /\ bankFile' = r.bank
               /\ last' = [op |-> "append_questions", arg |-> qs, ret |-> r.ret,
                           bank0 |-> bankFile, pend0 |-> pendingFile,
                           prev |-> last.op, prev_nonzero |-> (last.ret # 0)]
        /\ UNCHANGED <<pendingFile, runVars>>

CallStage ==
    \E qs \in StoreBatches, t \in Timestamps :
        /\ pc = "idle"
        /\ Len(load_questions(pendingFile)) + Len(qs) <= MaxPending
        /\ pendingFile' = stage_for_review(qs, pendingFile, [i \in 1..Len(qs) |-> t])
        /\ last' = [op |-> "stage_for_review", arg |-> qs, ret |-> 0,
                    bank0 |-> bankFile, pend0 |-> pendingFile,
                           prev |-> last.op, prev_nonzero |-> (last.ret # 0)]
        /\ UNCHANGED <<bankFile, runVars>>

CallApprove ==
    /\ pc = "idle"
    /\ Len(load_questions(bankFile)) + Len(load_questions(pendingFile)) <= MaxBank
    /\ LET r == approve_pending(bankFile, pendingFile)
       IN  /\ bankFile' = r.bank
           /\ pendingFile' = r.pending
           /\ last' = [op |-> "approve_pending", arg |-> <<>>, ret |-> r.ret,
                       bank0 |-> bankFile, pend0 |-> pendingFile,
                           prev |-> last.op, prev_nonzero |-> (last.ret # 0)]
    /\ UNCHANGED runVars

NextStore == CallAppend \/ CallStage \/ CallApprove

SpecStore == Init /\ [][NextStore]_vars

(***************************************************************************)
(* main(): one run of the command line program, a step per pipeline stage. *)
(* A run starts from "idle" or from the "done" of the run before it.       *)
(***************************************************************************)
Finish_exit_zero(message, code) ==
    /\ pc' = "done"
    /\ result' = message
    /\ exit_code' = 0

(* variant: a failed run goes back to the fetch stage and tries again *)
Finish_retry(message, code) ==
    /\ pc' = IF code = 0 THEN "done" ELSE "fetch"
    /\ result' = message
    /\ exit_code' = code

(* the run ends: the message it printed last and its exit status (return
   is status 0, sys.exit(1) and an unhandled exception are status 1) *)
Finish(message, code) ==
    /\ pc' = "done"
    /\ result' = message
    /\ exit_code' = code

run_mode_dry_run_first(a) ==
    IF a.approve /\ ~a.dry_run THEN "approve" ELSE "generate"

(* the branch main() takes first: the approve mode when --approve is set,
   whatever the other flags, else the generate mode *)
run_mode(a) == IF a.approve THEN "approve" ELSE "generate"

output_mode_no_dry_run(a) ==
    IF a.review THEN "review" ELSE "commit"

output_mode_swapped(a) ==
    IF a.dry_run THEN "dry_run"
    ELSE IF a.review THEN "commit"
    ELSE "review"

(* step 5 of main(): the preview when --dry-run is set, else staging when
   --review is set, else the commit *)
output_mode(a) ==
    IF a.dry_run THEN "dry_run"
    ELSE IF a.review THEN "review"
    ELSE "commit"

(* how many questions both stores can still take within the bounds *)
Room ==
    Min(MaxBatch, Min(MaxPending - Len(load_questions(pendingFile)),
                      MaxBank - Len(load_questions(bankFile))))

(* main() with --approve: approve_pending(), the message, return; with
   records pending, append_questions inside it loads the bank, and a
   JSONDecodeError raised there ends the process with status 1 before
   anything is written or unlinked *)
MainApprove ==
    \E a \in ArgSet :
        /\ pc \in {"idle", "done"}
        /\ runs < MaxRuns
        /\ runs' = runs + 1
        /\ run_mode(a) = "approve"
        /\ Len(load_questions(bankFile)) + Len(load_questions(pendingFile)) <= MaxBank
        /\ args' = a
        /\ bank0' = bankFile
        /\ pend0' = pendingFile
        /\ IF load_questions(pendingFile) # <<>> /\ load_questions(bankFile) = Unparsable
           THEN /\ Finish("JSONDecodeError", 1)
                /\ UNCHANGED <<bankFile, pendingFile>>
           ELSE LET r == approve_pending(bankFile, pendingFile)
                IN  /\ bankFile' = r.bank
                    /\ pendingFile' = r.pending
                    /\ Finish(IF r.ret # 0 THEN "Approved"
                              ELSE "No pending questions to approve", 0)
        /\ calls' = <<"approve_pending">>
        /\ net' = <<>>
        /\ news' = <<>>
        /\ raw_questions' = <<>>
        /\ valid' = <<>>
        /\ unique' = <<>>
        /\ UNCHANGED <<last, call, procs, serve, game>>

(* main() without --approve, up to the start of step 1 *)
MainStart ==
    \E a \in ArgSet :
        /\ pc \in {"idle", "done"}
        /\ runs < MaxRuns
        /\ runs' = runs + 1
        /\ run_mode(a) = "generate"
        /\ args' = a
        /\ bank0' = bankFile
        /\ pend0' = pendingFile
        /\ pc' = "fetch"
        /\ result' = "none"
        /\ exit_code' = 0
        /\ calls' = <<>>
        /\ net' = <<>>
        /\ news' = <<>>
        /\ raw_questions' = <<>>
        /\ valid' = <<>>
        /\ unique' = <<>>
        /\ UNCHANGED <<bankFile, pendingFile, last, call, procs, serve, game>>

StepFetch_no_exit ==
    \E outcomes \in FeedOutcomes :
        /\ pc = "fetch"
        /\ LET fetched == fetch_news(DefaultMaxPerFeed, outcomes)
           IN  /\ news' = fetched
               /\ pc' = "generate"
               /\ UNCHANGED <<result, exit_code>>
        /\ calls' = Append(calls, "fetch_news")
        /\ net' = Append(net, "rss")
        /\ UNCHANGED <<bankFile, pendingFile, args, raw_questions, valid, unique,
                       bank0, pend0, runs, last, call, procs, serve, game>>

(* step 1: fetch_news(); sys.exit(1) when it returns nothing *)
StepFetch ==
    \E outcomes \in FeedOutcomes :
        /\ pc = "fetch"
        /\ LET fetched == fetch_news(DefaultMaxPerFeed, outcomes)
           IN  /\ news' = fetched
               /\ IF fetched = <<>>
                  THEN Finish("No news items fetched", 1)
                  ELSE pc' = "generate" /\ UNCHANGED <<result, exit_code>>
        /\ calls' = Append(calls, "fetch_news")
        /\ net' = Append(net, "rss")
        /\ UNCHANGED <<bankFile, pendingFile, args, raw_questions, valid, unique,
                       bank0, pend0, runs, last, call, procs, serve, game>>

(* step 2: generate_questions(); sys.exit(1) inside it without a credential,
   and in main() when it returns nothing *)
StepGenerate ==
    \E env \in GenerateInputsUpTo[Room] :
        /\ pc = "generate"
        /\ LET g == generate_questions(news, args.count, env.api_key, env.outcome)
           IN  /\ raw_questions' = g.value
               /\ net' = IF g.requested THEN Append(net, "api") ELSE net
               /\ IF g.kind = "exit"
                  THEN Finish("ANTHROPIC_API_KEY environment variable is not set", 1)
                  ELSE IF g.value = <<>>
                  THEN Finish("No questions generated", 1)
                  ELSE pc' = "validate" /\ UNCHANGED <<result, exit_code>>
        /\ calls' = Append(calls, "generate_questions")
        /\ news' = <<>>
        /\ UNCHANGED <<bankFile, pendingFile, args, valid, unique, bank0, pend0, runs, last, call, procs, serve, game>>

(* step 3: validate_questions(); an exception it raises ends the process
   with a traceback and status 1 *)
StepValidate ==
    /\ pc = "validate"
    /\ LET v == validate_questions(raw_questions)
       IN  /\ valid' = IF v.raised THEN <<>> ELSE v.valid
           /\ IF v.raised
              THEN Finish("Traceback", 1)
              ELSE IF v.valid = <<>>
              THEN Finish("No valid questions after validation", 1)
              ELSE pc' = "dedup" /\ UNCHANGED <<result, exit_code>>
    /\ calls' = Append(calls, "validate_questions")
    /\ raw_questions' = <<>>
    /\ UNCHANGED <<bankFile, pendingFile, args, news, unique, net, bank0, pend0, runs, last, call, procs, serve, game>>

(* step 4: load_questions(QUESTIONS_FILE), where a JSONDecodeError ends the
   process, then deduplicate() against the bank as it is now *)
StepDedup ==
    /\ pc = "dedup"
    /\ IF load_questions(bankFile) = Unparsable
       THEN /\ unique' = <<>>
            /\ Finish("JSONDecodeError", 1)
            /\ UNCHANGED calls
       ELSE /\ LET d == deduplicate(valid, load_questions(bankFile))
               IN  /\ unique' = IF d.raised THEN <<>> ELSE d.unique
                   /\ IF d.raised
                      THEN Finish("Traceback", 1)
                      ELSE IF d.unique = <<>>
                      THEN Finish("All questions were duplicates", 1)
                      ELSE pc' = "output" /\ UNCHANGED <<result, exit_code>>
            /\ calls' = Append(calls, "deduplicate")
    /\ valid' = <<>>
    /\ UNCHANGED <<bankFile, pendingFile, args, news, raw_questions, net, bank0, pend0, runs, last, call, procs, serve, game>>

(* step 5: the dry-run preview, or stage_for_review(), or append_questions() *)
StepOutput ==
    \E t \in Timestamps :
        /\ pc = "output"
        /\ IF output_mode(args) = "dry_run"
           THEN /\ Finish("Dry run complete. No files were modified.", 0)
                /\ UNCHANGED <<bankFile, pendingFile, calls>>
           ELSE IF output_mode(args) = "review"
           THEN /\ pendingFile' = stage_for_review(unique, pendingFile,
                                                   [i \in 1..Len(unique) |-> t])
                /\ calls' = Append(calls, "stage_for_review")
                /\ Finish("Staged", 0)
                /\ UNCHANGED bankFile
           ELSE IF load_questions(bankFile) = Unparsable
           THEN /\ calls' = Append(calls, "append_questions")
                /\ Finish("JSONDecodeError", 1)
                /\ UNCHANGED <<bankFile, pendingFile>>
           ELSE /\ bankFile' = append_questions(unique, bankFile).bank
                /\ calls' = Append(calls, "append_questions")
                /\ Finish("Pipeline complete", 0)
                /\ UNCHANGED pendingFile
        /\ UNCHANGED <<args, news, raw_questions, valid, unique, net, bank0, pend0, runs, last, call, procs, serve, game>>

Next ==
    \/ MainApprove
    \/ MainStart
    \/ StepFetch
    \/ StepGenerate
    \/ StepValidate
    \/ StepDedup
    \/ StepOutput

Spec == InitRun /\ [][Next]_vars

(* a run has started and has not reached its end *)
Running == pc \notin {"idle", "done"}

(* the stage main() enters when the stage p returns normally *)
NextStage(p) ==
    CASE p = "fetch" -> "generate"
      [] p = "generate" -> "validate"
      [] p = "validate" -> "dedup"
      [] p = "dedup" -> "output"
      [] OTHER -> "done"

(* control leaves the stage the run is at: for the next stage, or for the
   end of the run (return, sys.exit or an unhandled exception) *)
Advance == Running /\ (pc' = NextStage(pc) \/ pc' = "done")

(* main() is synchronous and single-threaded: when every external call
   returns or raises, the stage a started run is at completes *)
SpecLive == InitRun /\ [][Next]_vars /\ WF_pc(Advance)

(***************************************************************************)
(* Direct calls of the pure functions: one call per behaviour, on an       *)
(* argument drawn from the sets below.                                     *)
(***************************************************************************)
storeAndRun == <<bankFile, pendingFile, pc, args, news, raw_questions, valid, unique,
                 exit_code, result, calls, net, bank0, pend0, runs, last, procs, serve, game>>

(* a field the candidate does not have *)
Absent == <<"absent">>

(* the dict with the given values, without the keys whose value is Absent *)
MkDict(f) == JDict([k \in {x \in DOMAIN f : f[x] # Absent} |-> f[k]])

CategoryValues == {Tok("US Foreign Policy"), Tok("Space Diplomacy")}

DifficultyValues == {Tok("easy"), Tok("extreme"), JStr(<<>>)}

CorrectAnswerValues == {Tok("yes"), JStr(<<" ">>), JStr(<<>>)}

IncorrectAnswersValues ==
    {JList(<<Tok("no"), Tok("maybe"), Tok("never")>>),
     JList(<<Tok("no"), Tok("maybe")>>),
     JList(<<Tok("no"), Tok("maybe"), Tok("never"), Tok("always")>>),
     JList(<<Tok("no"), JStr(<<" ">>), Tok("never")>>),
     JList(<<>>),
     JStr(<<"a", "b", "c">>)}

SourceValues == {Tok("Reuters"), JStr(<<>>), Absent}

(* candidates handed to validate_questions one at a time *)
ValidateCandidates ==
    {MkDict([category |-> c, difficulty |-> d, question |-> JStr(TextWho),
             correct_answer |-> ca, incorrect_answers |-> ia, source |-> src]) :
        c \in CategoryValues, d \in DifficultyValues, ca \in CorrectAnswerValues,
        ia \in IncorrectAnswersValues, src \in SourceValues}

(* candidates of the lists handed to validate_questions: two it accepts and
   two it rejects *)
ListCandidates ==
    {MkQ(TextWho, "easy"), MkQ(TextWhy, "hard"), MkQ(TextWhy, "extreme"),
     MkDict([category |-> Tok("US Foreign Policy"), difficulty |-> Tok("easy"),
             question |-> JStr(TextWho), correct_answer |-> JStr(<<" ">>),
             incorrect_answers |-> JList(<<Tok("no"), Tok("maybe")>>),
             source |-> Tok("Reuters")])}

(* lists with an element that is not an object: a number, null, a string,
   a list *)
NonObjectLists ==
    {<<JNum(7)>>, <<JNull>>, <<JStr(<<"a">>)>>, <<JList(<<>>)>>,
     <<MkQ(TextWho, "easy"), JNum(7)>>}

(* lists of one object with an answer value that is not a string *)
NonStringAnswerLists ==
    {<<JDict(Put(MkQ(TextWho, "easy")[2], "correct_answer", JNum(7)))>>,
     <<JDict(Put(MkQ(TextWho, "easy")[2], "incorrect_answers",
                 JList(<<Tok("no"), JNum(7), Tok("never")>>)))>>}

ValidateInputs ==
    {<<c>> : c \in ValidateCandidates} \cup SeqsUpTo(ListCandidates, MaxBatch)
        \cup NonObjectLists \cup NonStringAnswerLists

CallValidate ==
    \E questions \in ValidateInputs :
        /\ call.fn = "none"
        /\ call' = [fn |-> "validate_questions", arg |-> questions,
                    ret |-> validate_questions(questions)]
        /\ UNCHANGED storeAndRun

(* texts for similarity(): every text of up to MaxText of these characters *)
MaxText == 2

TextChars == {"W", "w", "h", "?"}

SimilarityInputs == SeqsUpTo(TextChars, MaxText) \X SeqsUpTo(TextChars, MaxText)

CallSimilarity ==
    \E pair \in SimilarityInputs :
        /\ call.fn = "none"
        /\ call' = [fn |-> "similarity", arg |-> pair,
                    ret |-> similarity(pair[1], pair[2])]
        /\ UNCHANGED storeAndRun

(* question texts: TextTreaty and TextTreatys are similar (12/13), as are
   TextTreatys and TextReatys (12/13); TextTreaty and TextReatys are
   not (10/12) *)
TextTreaty == <<"T", "r", "e", "a", "t", "y">>

TextTreatys == <<"T", "r", "e", "a", "t", "y", "s">>

TextReatys == <<"r", "e", "a", "t", "y", "s">>

TextUN ==
    <<"W", "h", "a", "t", " ", "y", "e", "a", "r", " ", "d", "i", "d",
      " ", "t", "h", "e", " ", "U", "N", " ", "f", "o", "r", "m", "?">>

TextUnitedNations ==
    <<"W", "h", "a", "t", " ", "y", "e", "a", "r", " ", "d", "i", "d",
      " ", "t", "h", "e", " ", "U", "n", "i", "t", "e", "d", " ", "N",
      "a", "t", "i", "o", "n", "s", " ", "f", "o", "r", "m", "?">>

DedupCandidates ==
    {MkQ(TextWho, "easy"), MkQ(TextWhoLower, "medium"), MkQ(TextWhy, "hard"),
     MkQ(TextTreaty, "easy"), MkQ(TextTreatys, "medium"), MkQ(TextReatys, "hard")}

(* batches of different candidates *)
DedupBatches ==
    {b \in SeqsUpTo(DedupCandidates, MaxBatch) :
        \A i, j \in 1..Len(b) : i # j => b[i] # b[j]}

DedupBanks ==
    {<<>>, <<MkQ(TextWho, "easy")>>, <<MkQ(TextTreatys, "medium")>>,
     <<MkQ(TextWhy, "hard"), MkQ(TextTreaty, "easy")>>}

DedupInputs ==
    {[new |-> b, bank |-> e] : b \in DedupBatches, e \in DedupBanks}
        \cup {[new |-> <<MkQ(TextUN, "easy")>>, bank |-> <<MkQ(TextUnitedNations, "easy")>>]}

CallDedup ==
    \E input \in DedupInputs :
        /\ call.fn = "none"
        /\ call' = [fn |-> "deduplicate", arg |-> input,
                    ret |-> deduplicate(input.new, input.bank)]
        /\ UNCHANGED storeAndRun

(* the news handed to generate_questions: none, or one item *)
NewsLists ==
    {<<>>, <<[title |-> <<"T">>, summary |-> <<"S">>, source |-> RSS_FEEDS[1], link |-> <<>>]>>}

CallGenerate ==
    \E news_items \in NewsLists, count \in 1..MaxCount, env \in GenerateInputsUpTo[MaxBatch] :
        /\ call.fn = "none"
        /\ call' = [fn |-> "generate_questions",
                    arg |-> [news_items |-> news_items, count |-> count, env |-> env],
                    ret |-> generate_questions(news_items, count, env.api_key, env.outcome)]
        /\ UNCHANGED storeAndRun

(* the largest max_per_feed handed to fetch_news directly *)
MaxPerFeed == 2

(* a text of n characters *)
LongText(n) == AsList([i \in 1..n |-> "a"])

(* a well-formed feed without entries *)
FeedEmpty == [raises |-> FALSE, bozo |-> FALSE, entries |-> <<>>]

(* a feed whose only entry has a blank title *)
FeedUntitled == [raises |-> FALSE, bozo |-> FALSE,
                 entries |-> <<[title |-> <<" ">>, summary |-> <<"s">>]>>]

(* a feed flagged malformed that still has entries *)
FeedBozoEntries == [raises |-> FALSE, bozo |-> TRUE,
                    entries |-> <<[title |-> <<"Z">>, description |-> <<"d">>]>>]

(* three entries; the second has neither summary nor description *)
FeedThree == [raises |-> FALSE, bozo |-> FALSE,
              entries |-> <<[title |-> <<"A">>, summary |-> <<"s">>, link |-> <<"l">>],
                            [title |-> <<"B">>],
                            [title |-> <<"C">>, summary |-> <<"<", "i", ">">>]>>]

(* a summary one character longer than the limit *)
FeedLongSummary == [raises |-> FALSE, bozo |-> FALSE,
                    entries |-> <<[title |-> <<"L">>,
                                   summary |-> LongText(SummaryLimit + 1)]>>]

(* a title one character longer than the limit, and no summary *)
FeedLongTitle == [raises |-> FALSE, bozo |-> FALSE,
                  entries |-> <<[title |-> LongText(SummaryLimit + 1)]>>]

FeedChoices ==
    {FeedRaises, FeedBozo, FeedOk, FeedEmpty, FeedUntitled, FeedBozoEntries, FeedThree,
     FeedLongSummary, FeedLongTitle}

(* what the five feeds do in one direct call: any choice for the first two,
   failure or delivery for the others *)
FetchOutcomes ==
    {<<a, b, c, d, e>> : a \in FeedChoices, b \in FeedChoices,
                         c \in {FeedRaises, FeedOk}, d \in {FeedBozo, FeedOk},
                         e \in {FeedRaises, FeedThree}}

CallFetch ==
    \E max_per_feed \in 1..MaxPerFeed, outcomes \in FetchOutcomes :
        /\ call.fn = "none"
        /\ call' = [fn |-> "fetch_news",
                    arg |-> [max_per_feed |-> max_per_feed, outcomes |-> outcomes],
                    ret |-> fetch_news(max_per_feed, outcomes)]
        /\ UNCHANGED storeAndRun

(* the number of ids that fit in IdWidth digits *)
IdCapacity == 10 ^ IdWidth

(* the bank file after size questions were appended one after another to
   a missing bank: records with the ids diplo_000, diplo_001, ... *)
BankOfSize(size) ==
    save_questions(AsList([i \in 1..size |->
        JDict(Put(MkQ(TextWho, "easy")[2], "id", diplo_id(i - 1)))]))

(* banks one and two questions short of IdCapacity records *)
LargeBanks == {BankOfSize(IdCapacity - 2), BankOfSize(IdCapacity - 1)}

(* append_questions called on a bank that has grown large *)
CallAppendLarge ==
    \E new_qs \in StoreBatches \ {<<>>}, bank \in LargeBanks :
        /\ call.fn = "none"
        /\ call' = [fn |-> "append_questions",
                    arg |-> [new_qs |-> new_qs, size |-> Len(load_questions(bank))],
                    ret |-> append_questions(new_qs, bank)]
        /\ UNCHANGED storeAndRun

NextPure ==
    CallValidate \/ CallSimilarity \/ CallDedup \/ CallGenerate \/ CallFetch
        \/ CallAppendLarge

SpecPure == Init /\ [][NextPure]_vars

(***************************************************************************)
(* Two invocations of append_questions on the same bank file.  Nothing     *)
(* locks the file: load_questions (line 372) and save_questions (line 379) *)
(* of one invocation are separate steps, and steps of the other invocation *)
(* can come between them.                                                  *)
(***************************************************************************)
Procs == {1, 2}

(* lines 373-380 of append_questions with the bank as it was loaded at line
   372; current is the bank file at the time of the save, which the code
   does not look at *)
append_after_load_rereads(new_qs, loaded, current) == append_questions(new_qs, current)

append_after_load(new_qs, loaded, current) == append_questions(new_qs, loaded)

RaceBatches == {b \in StoreBatches : b # <<>>}

InitRace ==
    /\ bankFile \in InitialBanks
    /\ pendingFile = NoFile
    /\ pc = "idle"
    /\ args = NoArgs
    /\ news = <<>>
    /\ raw_questions = <<>>
    /\ valid = <<>>
    /\ unique = <<>>
    /\ exit_code = 0
    /\ result = "none"
    /\ calls = <<>>
    /\ net = <<>>
    /\ bank0 = bankFile
    /\ pend0 = pendingFile
    /\ runs = 0
    /\ last = NoCall
    /\ call = NoPureCall
    /\ \E b \in [Procs -> RaceBatches] :
          /\ Len(load_questions(bankFile)) + Len(b[1]) + Len(b[2]) <= MaxBank
          /\ procs = [p \in Procs |-> [pc |-> "start", new_qs |-> b[p], loaded |-> NoFile,
                                       ret |-> 0, order |-> 0]]
    /\ serve = NoServe
    /\ game = NoGame

(* existing = load_questions(QUESTIONS_FILE) *)
RaceLoad ==
    \E p \in Procs :
        /\ procs[p].pc = "start"
        /\ procs' = [procs EXCEPT ![p].pc = "loaded", ![p].loaded = bankFile]
        /\ UNCHANGED <<bankFile, pendingFile, pc, args, news, raw_questions, valid, unique,
                       exit_code, result, calls, net, bank0, pend0, runs, last, call, serve, game>>

(* the ids, existing.extend(new_qs), save_questions(existing, QUESTIONS_FILE)
   and the return *)
RaceSave ==
    \E p \in Procs :
        /\ procs[p].pc = "loaded"
        /\ LET r == append_after_load(procs[p].new_qs, procs[p].loaded, bankFile)
           IN  /\ bankFile' = r.bank
               /\ procs' = [procs EXCEPT ![p].pc = "done", ![p].ret = r.ret,
                                         ![p].order = 1 + Cardinality({q \in Procs :
                                                              procs[q].pc = "done"})]
        /\ UNCHANGED <<pendingFile, pc, args, news, raw_questions, valid, unique,
                       exit_code, result, calls, net, bank0, pend0, runs, last, call, serve, game>>

NextRace == RaceLoad \/ RaceSave

SpecRace == InitRace /\ [][NextRace]_vars

(***************************************************************************)
(* A review-mode run staging its questions and approve runs, on the same   *)
(* pending file.  Nothing locks the file: the load (lines 390, 403), the   *)
(* save (397), the merge into the bank (413) and the unlink (416) are      *)
(* separate steps, and the process of an approve run can be killed between *)
(* the merge and the unlink.  procs.overlap records that the staging call  *)
(* and an approve call were under way at the same time.                    *)
(***************************************************************************)
InitReview ==
    /\ bankFile \in InitialBanks
    /\ pendingFile \in InitialPendings
    /\ pc = "idle"
    /\ args = NoArgs
    /\ news = <<>>
    /\ raw_questions = <<>>
    /\ valid = <<>>
    /\ unique = <<>>
    /\ exit_code = 0
    /\ result = "none"
    /\ calls = <<>>
    /\ net = <<>>
    /\ bank0 = bankFile
    /\ pend0 = pendingFile
    /\ runs = 0
    /\ last = NoCall
    /\ call = NoPureCall
    /\ \E b \in RaceBatches :
          procs = [stage |-> [pc |-> "start", questions |-> b, loaded |-> NoFile],
                   approve |-> [pc |-> "idle", loaded |-> NoFile, ret |-> 0,
                                killed |-> FALSE],
                   overlap |-> FALSE]
    /\ serve = NoServe
    /\ game = NoGame

reviewOnly == <<pc, args, news, raw_questions, valid, unique, exit_code, result,
                calls, net, bank0, pend0, last, call, serve, game>>

(* stage_for_review: pending = load_questions(PENDING_FILE) *)
StageLoad ==
    /\ procs.stage.pc = "start"
    /\ procs' = [procs EXCEPT !.stage.pc = "loaded", !.stage.loaded = pendingFile,
                              !.overlap = (procs.approve.pc # "idle")]
    /\ UNCHANGED <<bankFile, pendingFile, runs, reviewOnly>>

(* stage_for_review: the ids and timestamps, pending.extend(questions),
   save_questions(pending, PENDING_FILE) and the log line that reports the
   questions staged *)
StageSave ==
    /\ procs.stage.pc = "loaded"
    /\ \E t \in Timestamps :
          pendingFile' = stage_for_review(procs.stage.questions, procs.stage.loaded,
                                          [i \in 1..Len(procs.stage.questions) |-> t])
    /\ procs' = [procs EXCEPT !.stage.pc = "done"]
    /\ UNCHANGED <<bankFile, runs, reviewOnly>>

(* an approve run starts: pending = load_questions(PENDING_FILE), and the
   return of 0 when there is nothing pending *)
ApproveLoad ==
    /\ procs.approve.pc = "idle"
    /\ runs < MaxRuns
    /\ runs' = runs + 1
    /\ procs' = [procs EXCEPT !.approve.loaded = pendingFile,
                              !.approve.pc = IF load_questions(pendingFile) = <<>>
                                             THEN "idle" ELSE "loaded",
                              !.approve.ret = 0,
                              !.overlap = procs.overlap
                                          \/ (procs.stage.pc = "loaded"
                                              /\ load_questions(pendingFile) # <<>>)]
    /\ UNCHANGED <<bankFile, pendingFile, reviewOnly>>

(* approve_pending: the temporary fields are stripped and
   count = append_questions(pending) rewrites the bank *)
ApproveMerge ==
    /\ procs.approve.pc = "loaded"
    /\ LET r == approve_pending(bankFile, procs.approve.loaded)
       IN  /\ bankFile' = r.bank
           /\ procs' = [procs EXCEPT !.approve.pc = "merged", !.approve.ret = r.ret]
    /\ UNCHANGED <<pendingFile, runs, reviewOnly>>

(* approve_pending: PENDING_FILE.unlink(missing_ok=True) and the return *)
ApproveUnlink ==
    /\ procs.approve.pc = "merged"
    /\ pendingFile' = unlink
    /\ procs' = [procs EXCEPT !.approve.pc = "idle"]
    /\ UNCHANGED <<bankFile, runs, reviewOnly>>

(* the process of the approve run is killed after the bank was rewritten
   and before the unlink *)
ApproveKilled ==
    /\ procs.approve.pc = "merged"
    /\ procs' = [procs EXCEPT !.approve.pc = "idle", !.approve.killed = TRUE]
    /\ UNCHANGED <<bankFile, pendingFile, runs, reviewOnly>>

NextReview ==
    \/ StageLoad \/ StageSave
    \/ ApproveLoad \/ ApproveMerge \/ ApproveUnlink \/ ApproveKilled

SpecReview == InitReview /\ [][NextReview]_vars

(***************************************************************************)
(* The Diplomacy page: the question-serving side.  Streamlit runs the page *)
(* script once per interaction of a session; st.cache_data keeps the       *)
(* return value of load_questions() for the life of the server process,    *)
(* across reruns and across sessions.                                      *)
(***************************************************************************)
MaxSessions == 2

MaxRounds == 2

MaxRoundCount == 2

MaxCommits == 1

(* q.get(k) *)
dict_get(q, k) == IF Has(q[2], k) THEN q[2][k] ELSE JNull

(* the st.cache_data entry of load_questions before its first call *)
NoCache == [hit |-> FALSE, value |-> <<>>]

(* the body of the page's load_questions: the first of the two paths that
   exists is parsed; the /tmp fallback file is taken not to exist *)
page_read_questions(bank) == IF bank.exists THEN bank.data ELSE <<>>

(* load_questions() of the page under @st.cache_data: the stored return
   value when there is one, otherwise the body runs *)
page_load_questions(cache, bank) ==
    IF cache.hit THEN cache.value ELSE page_read_questions(bank)

(* [q for q in ALL_QUESTIONS if q.get("difficulty") == d] *)
of_difficulty(qs, d) == SelectSeq(qs, LAMBDA q : dict_get(q, "difficulty") = Tok(d))

(* variant: _unseen keeps every question *)
unseen_keeps_all(qs, seen) == qs

(* _unseen(qs) *)
unseen(qs, seen) == SelectSeq(qs, LAMBDA q : dict_get(q, "id") \notin seen)

(* the eligible questions of a mode with nothing seen: hard + medium, or
   easy + medium *)
mode_pool(mode, qs) ==
    IF mode = "hard"
    THEN of_difficulty(qs, "hard") \o of_difficulty(qs, "medium")
    ELSE of_difficulty(qs, "easy") \o of_difficulty(qs, "medium")

(* random.shuffle(eligible); eligible[:count]: every arrangement of count
   elements of eligible, or of all of them when there are fewer *)
shuffled_prefix(eligible, count) ==
    LET k == Min(count, Len(eligible))
    IN  {AsList([i \in 1..k |-> eligible[f[i]]]) :
            f \in {g \in [1..k -> 1..Len(eligible)] :
                      \A i, j \in 1..k : i # j => g[i] # g[j]}}

(* select_questions: the outcomes the shuffle allows, each with the
   returned list and the session_state it leaves *)
select_questions(mode, count, all_questions, seen0) ==
    LET eligible0 ==
            IF mode = "hard"
            THEN unseen(of_difficulty(all_questions, "hard"), seen0)
                 \o unseen(of_difficulty(all_questions, "medium"), seen0)
            ELSE unseen(of_difficulty(all_questions, "easy"), seen0)
                 \o unseen(of_difficulty(all_questions, "medium"), seen0)
        reset == Len(eligible0) < count
        seen1 == IF reset THEN {} ELSE seen0
        eligible == IF reset THEN mode_pool(mode, all_questions) ELSE eligible0
    IN  {[selected |-> sel,
          diplo_seen_ids |-> seen1 \cup {dict_get(sel[i], "id") : i \in 1..Len(sel)},
          diplo_pool_reset |-> reset] : sel \in shuffled_prefix(eligible, count)}

Modes == {"normal", "hard"}

(* no call of select_questions yet in the session *)
NoRound == [mode |-> "none", count |-> 0, seen_before |-> {}, selected |-> <<>>]

(* the banks the server starts on: missing, or holding committed easy,
   medium and hard questions *)
ServeBanks ==
    {NoFile,
     append_questions(<<MkQ(TextWho, "easy"), MkQ(TextWhoLower, "medium"),
                        MkQ(TextWhy, "hard")>>, NoFile).bank,
     append_questions(<<MkQ(TextWho, "easy"), MkQ(TextWhoLower, "medium"),
                        MkQ(TextWhy, "easy")>>, NoFile).bank}

(* the batch a pipeline run commits while the server is up *)
ServeBatches == {<<MkQ(TextWhy, "medium")>>}

InitServe ==
    /\ bankFile \in ServeBanks
    /\ pendingFile = NoFile
    /\ pc = "idle"
    /\ args = NoArgs
    /\ news = <<>>
    /\ raw_questions = <<>>
    /\ valid = <<>>
    /\ unique = <<>>
    /\ exit_code = 0
    /\ result = "none"
    /\ calls = <<>>
    /\ net = <<>>
    /\ bank0 = bankFile
    /\ pend0 = pendingFile
    /\ runs = 0
    /\ last = NoCall
    /\ call = NoPureCall
    /\ procs = NoProcs
    /\ serve = [cache |-> NoCache, sessions |-> 0, ALL_QUESTIONS |-> <<>>,
                bank_at_start |-> NoFile, diplo_seen_ids |-> {},
                diplo_pool_reset |-> FALSE, rounds |-> 0, round |-> NoRound]
    /\ game = NoGame

(* a browser opens the page: the script runs with a fresh session_state *)
ServeSession ==
    /\ serve.sessions < MaxSessions
    /\ LET v == page_load_questions(serve.cache, bankFile)
       IN  serve' = [cache |-> [hit |-> TRUE, value |-> v],
                     sessions |-> serve.sessions + 1,
                     ALL_QUESTIONS |-> v,
                     bank_at_start |-> bankFile,
                     diplo_seen_ids |-> {},
                     diplo_pool_reset |-> FALSE,
                     rounds |-> 0,
                     round |-> NoRound]
    /\ UNCHANGED <<bankFile, pendingFile, pc, args, news, raw_questions, valid, unique,
                   exit_code, result, calls, net, bank0, pend0, runs, last, call, procs, game>>

(* the Start Round button: the script reruns, ALL_QUESTIONS is assigned
   again and select_questions(mode, num_q) is called *)
ServeRound ==
    \E mode \in Modes, count \in 1..MaxRoundCount :
        /\ serve.sessions > 0
        /\ serve.rounds < MaxRounds
        /\ LET v == page_load_questions(serve.cache, bankFile)
           IN  \E r \in select_questions(mode, count, v, serve.diplo_seen_ids) :
                   serve' = [serve EXCEPT
                                !.cache = [hit |-> TRUE, value |-> v],
                                !.ALL_QUESTIONS = v,
                                !.diplo_seen_ids = r.diplo_seen_ids,
                                !.diplo_pool_reset = r.diplo_pool_reset,
                                !.rounds = serve.rounds + 1,
                                !.round = [mode |-> mode, count |-> count,
                                           seen_before |-> serve.diplo_seen_ids,
                                           selected |-> r.selected]]
        /\ UNCHANGED <<bankFile, pendingFile, pc, args, news, raw_questions, valid, unique,
                       exit_code, result, calls, net, bank0, pend0, runs, last, call, procs, game>>

(* a pipeline run commits a batch: append_questions rewrites the bank *)
ServeCommit ==
    \E qs \in ServeBatches :
        /\ runs < MaxCommits
        /\ Len(load_questions(bankFile)) + Len(qs) <= MaxBank
        /\ bankFile' = append_questions(qs, bankFile).bank
        /\ runs' = runs + 1
        /\ UNCHANGED <<pendingFile, pc, args, news, raw_questions, valid, unique,
                       exit_code, result, calls, net, bank0, pend0, last, call,
                       procs, serve, game>>

NextServe == ServeSession \/ ServeRound \/ ServeCommit

SpecServe == InitServe /\ [][NextServe]_vars

(***************************************************************************)
(* One browser session on the front-end: the Home page, the Play page      *)
(* (pages/1 Play) and the Diplomacy page (pages/2 Diplomacy) share one     *)
(* st.session_state.  Every button click is one run of the page script;    *)
(* the handler of the clicked button is the action.  The order of the      *)
(* shuffled option buttons decides only where each button is drawn, so     *)
(* shuffled_options and diplo_options hold the set of their entries.       *)
(***************************************************************************)
(* None *)
NoAnswer == "None"

(* two entries of FALLBACK_QUESTIONS *)
FALLBACK_QUESTIONS ==
    <<[category |-> "Science", difficulty |-> "medium",
       question |-> "What planet is known as the Red Planet?",
       correct_answer |-> "Mars",
       incorrect_answers |-> <<"Venus", "Jupiter", "Saturn">>],
      [category |-> "History", difficulty |-> "easy",
       question |-> "In which year did the Titanic sink?",
       correct_answer |-> "1912",
       incorrect_answers |-> <<"1905", "1918", "1923">>]>>

(* a question of an opentdb response *)
ApiQuestion ==
    [category |-> "Art", difficulty |-> "hard",
     question |-> "Who painted Guernica?",
     correct_answer |-> "Picasso",
     incorrect_answers |-> <<"Dali", "Miro", "Goya">>]

(* fetch_questions(amount, category, difficulty): the questions of an
   opentdb response with response_code 0 (any number of them, the service
   decides), or on any failure a shuffled prefix of the built-in set *)
fetch_questions(amount) ==
    {[qs |-> AsList([i \in 1..n |-> ApiQuestion]), online |-> TRUE] : n \in 0..amount}
    \cup {[qs |-> p, online |-> FALSE] : p \in shuffled_prefix(FALLBACK_QUESTIONS, amount)}

(* q["incorrect_answers"] + [q["correct_answer"]] after random.shuffle *)
play_options(q) == Range(q.incorrect_answers) \cup {q.correct_answer}

(* the same for a question of the bank *)
diplo_options_of(q) ==
    Range(dict_get(q, "incorrect_answers")[2]) \cup {dict_get(q, "correct_answer")}

(* the body of the Start Round button of the Play page *)
play_start(s, qs, online) ==
    IF qs = <<>> THEN s
    ELSE [s EXCEPT !.questions = qs, !.game_active = TRUE, !.current_idx = 0,
                   !.score = 0, !.streak = 0, !.answered = FALSE,
                   !.selected_answer = NoAnswer, !.online = online,
                   !.round_results = <<>>,
                   !.shuffled_options = play_options(qs[1]),
                   !.rounds = s.rounds + 1]

(* variant: a correct answer leaves best_streak alone *)
play_answer_keeps_best(s, opt) ==
    LET q == s.questions[s.current_idx + 1]
        correct == opt = q.correct_answer
    IN  [s EXCEPT !.selected_answer = opt, !.answered = TRUE,
                  !.round_results = Append(s.round_results, correct),
                  !.total_played = s.total_played + 1,
                  !.score = IF correct THEN s.score + 1 ELSE s.score,
                  !.streak = IF correct THEN s.streak + 1 ELSE 0,
                  !.total_correct = IF correct THEN s.total_correct + 1
                                    ELSE s.total_correct]

(* the body of an answer button of the Play page *)
play_answer(s, opt) ==
    LET q == s.questions[s.current_idx + 1]
        correct == opt = q.correct_answer
    IN  [s EXCEPT !.selected_answer = opt, !.answered = TRUE,
                  !.round_results = Append(s.round_results, correct),
                  !.total_played = s.total_played + 1,
                  !.score = IF correct THEN s.score + 1 ELSE s.score,
                  !.streak = IF correct THEN s.streak + 1 ELSE 0,
                  !.total_correct = IF correct THEN s.total_correct + 1
                                    ELSE s.total_correct,
                  !.best_streak = IF correct /\ s.streak + 1 > s.best_streak
                                  THEN s.streak + 1 ELSE s.best_streak]

(* the body of the Next Question / See Results button of the Play page *)
play_next(s) ==
    LET next_idx == s.current_idx + 1
    IN  [s EXCEPT !.current_idx = next_idx, !.answered = FALSE,
                  !.selected_answer = NoAnswer,
                  !.shuffled_options =
                      IF next_idx < Len(s.questions)
                      THEN play_options(s.questions[next_idx + 1])
                      ELSE s.shuffled_options]

(* the body of the Play Again button of the Play page *)
play_again(s) ==
    [s EXCEPT !.game_active = FALSE, !.questions = <<>>, !.current_idx = 0,
              !.answered = FALSE]

(* the body of the Home button of the Play page *)
play_home(s) == [s EXCEPT !.game_active = FALSE, !.page = "Home"]

(* the body of the Start Round button of the Diplomacy page: select_questions
   runs first and leaves its marks whether or not a round starts *)
diplo_start(s, mode, out) ==
    LET s1 == [s EXCEPT !.diplo_seen_ids = out.diplo_seen_ids,
                        !.diplo_pool_reset = out.diplo_pool_reset]
        qs == out.selected
    IN  IF qs = <<>> THEN s1
        ELSE [s1 EXCEPT !.diplo_questions = qs, !.diplo_active = TRUE,
                        !.diplo_idx = 0, !.diplo_score = 0, !.diplo_streak = 0,
                        !.diplo_answered = FALSE, !.diplo_selected = NoAnswer,
                        !.diplo_results = <<>>, !.diplo_mode = mode,
                        !.diplo_options = diplo_options_of(qs[1]),
                        !.rounds = s.rounds + 1]

(* the body of an answer button of the Diplomacy page *)
diplo_answer(s, opt) ==
    LET q == s.diplo_questions[s.diplo_idx + 1]
        correct == opt = dict_get(q, "correct_answer")
    IN  [s EXCEPT !.diplo_selected = opt, !.diplo_answered = TRUE,
                  !.diplo_results =
                      Append(s.diplo_results,
                             [correct |-> correct, chosen |-> opt,
                              answer |-> dict_get(q, "correct_answer"),
                              category |-> dict_get(q, "category")]),
                  !.total_played = s.total_played + 1,
                  !.diplo_score = IF correct THEN s.diplo_score + 1 ELSE s.diplo_score,
                  !.diplo_streak = IF correct THEN s.diplo_streak + 1 ELSE 0,
                  !.total_correct = IF correct THEN s.total_correct + 1
                                    ELSE s.total_correct,
                  !.best_streak = IF correct /\ s.diplo_streak + 1 > s.best_streak
                                  THEN s.diplo_streak + 1 ELSE s.best_streak]

(* variant: the Next button leaves diplo_answered set *)
diplo_next_stays_answered(s) ==
    LET next_idx == s.diplo_idx + 1
    IN  [s EXCEPT !.diplo_idx = next_idx,
                  !.diplo_selected = NoAnswer,
                  !.diplo_options =
                      IF next_idx < Len(s.diplo_questions)
                      THEN diplo_options_of(s.diplo_questions[next_idx + 1])
                      ELSE s.diplo_options]

(* the body of the Next Question / See Results button of the Diplomacy page *)
diplo_next(s) ==
    LET next_idx == s.diplo_idx + 1
    IN  [s EXCEPT !.diplo_idx = next_idx, !.diplo_answered = FALSE,
                  !.diplo_selected = NoAnswer,
                  !.diplo_options =
                      IF next_idx < Len(s.diplo_questions)
                      THEN diplo_options_of(s.diplo_questions[next_idx + 1])
                      ELSE s.diplo_options]

(* the body of the Play Again button of the Diplomacy page *)
diplo_again(s) ==
    [s EXCEPT !.diplo_active = FALSE, !.diplo_questions = <<>>, !.diplo_idx = 0,
              !.diplo_answered = FALSE]

(* the body of the Home button of the Diplomacy page *)
diplo_home(s) == [s EXCEPT !.diplo_active = FALSE, !.page = "Home"]

(* the pages of the app *)
Pages == {"Home", "Play", "Diplomacy"}

(* the questions the Diplomacy page has loaded in this session *)
GameBank ==
    append_questions(<<MkQ(TextWho, "easy"), MkQ(TextWhoLower, "medium"),
                       MkQ(TextWhy, "hard")>>, NoFile).bank

(* the session_state once the Home page has run for the first time: the
   shared statistics are set; each page adds its own defaults on its first
   run, before any of its buttons is drawn *)
InitGame ==
    /\ bankFile = GameBank
    /\ pendingFile = NoFile
    /\ pc = "idle"
    /\ args = NoArgs
    /\ news = <<>>
    /\ raw_questions = <<>>
    /\ valid = <<>>
    /\ unique = <<>>
    /\ exit_code = 0
    /\ result = "none"
    /\ calls = <<>>
    /\ net = <<>>
    /\ bank0 = bankFile
    /\ pend0 = pendingFile
    /\ runs = 0
    /\ last = NoCall
    /\ call = NoPureCall
    /\ procs = NoProcs
    /\ serve = NoServe
    /\ game = [page |-> "Home", rounds |-> 0,
               total_played |-> 0, total_correct |-> 0, best_streak |-> 0,
               game_active |-> FALSE, questions |-> <<>>, current_idx |-> 0,
               score |-> 0, streak |-> 0, answered |-> FALSE,
               selected_answer |-> NoAnswer, shuffled_options |-> {},
               online |-> TRUE, round_results |-> <<>>,
               diplo_active |-> FALSE, diplo_questions |-> <<>>, diplo_idx |-> 0,
               diplo_score |-> 0, diplo_streak |-> 0, diplo_answered |-> FALSE,
               diplo_selected |-> NoAnswer, diplo_options |-> {},
               diplo_results |-> <<>>, diplo_mode |-> "normal",
               diplo_seen_ids |-> {}, diplo_pool_reset |-> FALSE]

gameOnly == <<bankFile, pendingFile, pc, args, news, raw_questions, valid, unique,
              exit_code, result, calls, net, bank0, pend0, runs, last, call,
              procs, serve>>

(* the phase of the Play page that the script draws *)
PlayPhase ==
    IF ~game.game_active THEN "setup"
    ELSE IF game.current_idx < Len(game.questions) THEN "game" ELSE "results"

(* the phase of the Diplomacy page that the script draws *)
DiploPhase ==
    IF ~game.diplo_active THEN "setup"
    ELSE IF game.diplo_idx < Len(game.diplo_questions) THEN "game" ELSE "results"

(* The sliders of both pages stand at MaxRoundCount; a shorter round comes
   from a shorter opentdb response. *)
(* a page is picked in the sidebar *)
Navigate ==
    /\ \E p \in Pages \ {game.page} : game' = [game EXCEPT !.page = p]
    /\ UNCHANGED gameOnly

PlayStart ==
    /\ game.page = "Play" /\ PlayPhase = "setup"
    /\ game.rounds < MaxRounds
    /\ \E r \in fetch_questions(MaxRoundCount) :
          game' = play_start(game, r.qs, r.online)
    /\ UNCHANGED gameOnly

PlayAnswer ==
    /\ game.page = "Play" /\ PlayPhase = "game" /\ ~game.answered
    /\ \E opt \in game.shuffled_options : game' = play_answer(game, opt)
    /\ UNCHANGED gameOnly

PlayNext ==
    /\ game.page = "Play" /\ PlayPhase = "game" /\ game.answered
    /\ game' = play_next(game)
    /\ UNCHANGED gameOnly

PlayAgain ==
    /\ game.page = "Play" /\ PlayPhase = "results"
    /\ game' = play_again(game)
    /\ UNCHANGED gameOnly

PlayHome ==
    /\ game.page = "Play" /\ PlayPhase = "results"
    /\ game' = play_home(game)
    /\ UNCHANGED gameOnly

DiploStart ==
    /\ game.page = "Diplomacy" /\ DiploPhase = "setup"
    /\ game.rounds < MaxRounds
    /\ \E mode \in Modes :
       \E out \in select_questions(mode, MaxRoundCount, page_read_questions(bankFile),
                                   game.diplo_seen_ids) :
          game' = diplo_start(game, mode, out)
    /\ UNCHANGED gameOnly

DiploAnswer ==
    /\ game.page = "Diplomacy" /\ DiploPhase = "game" /\ ~game.diplo_answered
    /\ \E opt \in game.diplo_options : game' = diplo_answer(game, opt)
    /\ UNCHANGED gameOnly

DiploNext ==
    /\ game.page = "Diplomacy" /\ DiploPhase = "game" /\ game.diplo_answered
    /\ game' = diplo_next(game)
    /\ UNCHANGED gameOnly

DiploAgain ==
    /\ game.page = "Diplomacy" /\ DiploPhase = "results"
    /\ game' = diplo_again(game)
    /\ UNCHANGED gameOnly

DiploHome ==
    /\ game.page = "Diplomacy" /\ DiploPhase = "results"
    /\ game' = diplo_home(game)
    /\ UNCHANGED gameOnly

NextGame ==
    \/ Navigate
    \/ PlayStart \/ PlayAnswer \/ PlayNext \/ PlayAgain \/ PlayHome
    \/ DiploStart \/ DiploAnswer \/ DiploNext \/ DiploAgain \/ DiploHome

SpecGame == InitGame /\ [][NextGame]_vars

(***************************************************************************)
(* Properties of the question store.                                       *)
(***************************************************************************)
Bank == load_questions(bankFile)

Pending == load_questions(pendingFile)

(* the characters of the id of record q *)
IdText(q) == q[2]["id"][2]

IsBankId(q) ==
    /\ Has(q[2], "id") /\ IsStr(q[2]["id"])
    /\ StartsWith(IdText(q), DiploPrefix)
    /\ IsInt(SubSeq(IdText(q), Len(DiploPrefix) + 1, Len(IdText(q))))

IsPendingId(q) ==
    /\ Has(q[2], "id") /\ IsStr(q[2]["id"])
    /\ StartsWith(IdText(q), PendingPrefix)

(* the number after "diplo_" *)
Suffix(q) == int(SubSeq(IdText(q), Len(DiploPrefix) + 1, Len(IdText(q))))

(* the largest id number in the non-empty list of bank records qs *)
MaxSuffix(qs) ==
    LET numbers == {Suffix(qs[i]) : i \in 1..Len(qs)}
    IN  CHOOSE m \in numbers : \A n \in numbers : n <= m

(* the id number the k-th question appended to the records old must get *)
FreshNumber(old, k) == IF old = <<>> THEN k - 1 ELSE MaxSuffix(old) + k

(* C1: in every state reached by append_questions, stage_for_review and
   approve_pending calls from a missing or empty bank file, every bank record
   carries an id diplo_N, the numbers N strictly increase in file order (so
   the ids are pairwise distinct and none is assigned twice), and the first
   record of the bank has number 0. *)
C1_BankIdsIncreasing ==
    /\ \A i \in 1..Len(Bank) : IsBankId(Bank[i])
    /\ LET number == [i \in 1..Len(Bank) |-> Suffix(Bank[i])]
       IN  /\ \A i \in 1..Len(Bank) : \A j \in (i + 1)..Len(Bank) :
                  number[i] < number[j]
           /\ (Bank # <<>> => number[1] = 0)

C1_Witness ==
    /\ Len(Bank) >= 3
    /\ last.op = "approve_pending" /\ last.ret >= 1
    /\ last.prev = "stage_for_review"
    /\ load_questions(last.bank0) # <<>>

(* C2: no bank record has a pending_NNN id or a staged_at field, no pending
   record has a diplo_ id, and the records an approve_pending call adds
   carry the ids that follow the largest id of the bank it found. *)
C2_NoPendingLeak ==
    /\ \A i \in 1..Len(Bank) :
           /\ ~Has(Bank[i][2], "staged_at")
           /\ ~IsPendingId(Bank[i])
    /\ \A i \in 1..Len(Pending) :
           /\ IsPendingId(Pending[i])
           /\ ~StartsWith(IdText(Pending[i]), DiploPrefix)
    /\ (last.op = "approve_pending" =>
            LET old == load_questions(last.bank0)
            IN  \A k \in 1..last.ret :
                    Bank[Len(old) + k][2]["id"] = diplo_id(FreshNumber(old, k)))

C2_Witness ==
    /\ last.op = "approve_pending" /\ last.ret = 2
    /\ load_questions(last.bank0) # <<>>
    /\ \A i \in 1..2 : Has(load_questions(last.pend0)[i][2], "staged_at")

(* C3: every step leaves the records that were in the bank file, unchanged
   and in the same order, as a prefix of the new bank, and never removes the
   bank file. *)
C3_AppendOnly ==
    [][/\ IsPrefix(load_questions(bankFile), load_questions(bankFile'))
       /\ (bankFile.exists => bankFile'.exists)]_vars

C3_Witness ==
    /\ last.op = "append_questions" /\ last.ret >= 1
    /\ Len(load_questions(last.bank0)) >= 2
    /\ last.prev = "approve_pending" /\ last.prev_nonzero

(* C4: after append_questions with k candidates on a bank whose largest id
   number is m, the call has returned k, the bank is the old bank followed by
   the k candidates in input order with the ids m+1 .. m+k (0 .. k-1 on an
   empty bank), and so is k records longer. *)
C4_AppendAssignsSequentialIds ==
    last.op = "append_questions" =>
        LET old == load_questions(last.bank0)
            k == Len(last.arg)
        IN  /\ last.ret = k
            /\ Len(Bank) = Len(old) + k
            /\ SubSeq(Bank, 1, Len(old)) = old
            /\ \A i \in 1..k :
                   Bank[Len(old) + i] =
                       JDict(Put(last.arg[i][2], "id", diplo_id(FreshNumber(old, i))))

(* the scenario of the claim within the bounds: a bank holding diplo_000 and
   diplo_001, then MaxBatch candidates, which get diplo_002 onwards *)
C4_Witness ==
    /\ last.op = "append_questions"
    /\ Len(last.arg) = MaxBatch
    /\ last.arg[1] # last.arg[2]
    /\ Len(load_questions(last.bank0)) = 2
    /\ load_questions(last.bank0)[1][2]["id"] = JStr(DiploPrefix \o <<"0", "0", "0">>)
    /\ load_questions(last.bank0)[2][2]["id"] = JStr(DiploPrefix \o <<"0", "0", "1">>)
    /\ Len(Bank) = 2 + MaxBatch
    /\ Bank[3][2]["id"] = JStr(DiploPrefix \o <<"0", "0", "2">>)
    /\ Bank[4][2]["id"] = JStr(DiploPrefix \o <<"0", "0", "3">>)

(* C5: after approve_pending on a pending file of n >= 1 records, the call
   has returned n, the bank is the old bank followed by the n pending
   records in pending order, each without its staging id and timestamp and
   with a fresh bank id, and the pending file does not exist. *)
C5_ApproveAllOrNothing ==
    (last.op = "approve_pending" /\ load_questions(last.pend0) # <<>>) =>
        LET old == load_questions(last.bank0)
            pend == load_questions(last.pend0)
            n == Len(pend)
        IN  /\ last.ret = n
            /\ Len(Bank) = Len(old) + n
            /\ SubSeq(Bank, 1, Len(old)) = old
            /\ \A i \in 1..n :
                   Bank[Len(old) + i] =
                       JDict(Put(Pop(Pop(pend[i][2], "staged_at"), "id"),
                                 "id", diplo_id(FreshNumber(old, i))))
            /\ ~pendingFile.exists

(* the scenario of the claim: two candidates staged by one call, then approved *)
C5_Witness ==
    /\ last.op = "approve_pending" /\ last.ret = 2
    /\ last.prev = "stage_for_review"
    /\ Len(load_questions(last.pend0)) = 2
    /\ ~pendingFile.exists
    /\ Len(Bank) = Len(load_questions(last.bank0)) + 2

(* C6: an approve_pending call that directly follows another approve_pending
   call returns 0 and leaves the bank file and the (missing or empty)
   pending file as they were. *)
C6_ApproveIdempotent ==
    (last.op = "approve_pending" /\ last.prev = "approve_pending") =>
        /\ last.ret = 0
        /\ bankFile = last.bank0
        /\ pendingFile = last.pend0

(* the second approve after a first one that merged records and deleted the
   pending file *)
C6_Witness ==
    /\ last.op = "approve_pending" /\ last.prev = "approve_pending"
    /\ last.prev_nonzero
    /\ ~last.pend0.exists
    /\ last.ret = 0

(***************************************************************************)
(* Properties of a run of main().                                          *)
(***************************************************************************)
(* record q without the keys the stores add *)
Bare(q) == JDict(Pop(Pop(q[2], "staged_at"), "id"))

(* the records new adds to old, without the keys the stores add *)
Added(old, new) ==
    AsList([i \in 1..(Len(new) - Len(old)) |-> Bare(new[Len(old) + i])])

FilesUntouched == bankFile = bank0 /\ pendingFile = pend0

(* the statement of C7 as made: a finished run with --dry-run has left both
   files as it found them, whatever the other flags *)
C7_DryRunAnyFlags ==
    (pc = "done" /\ args.dry_run) => FilesUntouched

(* C7: a run with --dry-run and without --approve writes nothing: at every
   point of the run, and in whatever terminal state it ends, the bank file
   and the pending file are what they were when it started. *)
C7_DryRunWritesNothing ==
    (pc # "idle" /\ args.dry_run /\ ~args.approve) => FilesUntouched

(* a dry run printed its preview of two unique questions, with --review
   set as well *)
C7_Witness ==
    /\ pc = "done" /\ args.dry_run /\ ~args.approve /\ args.review
    /\ result = "Dry run complete. No files were modified."
    /\ Len(unique) = 2
    /\ FilesUntouched

(* C8: a generate run that reached the review/commit branch wrote exactly
   one store: with --review it called stage_for_review, the bank file is
   unchanged and the pending file is the old one followed by the unique
   questions; without it, it called append_questions, the pending file is
   unchanged and the bank is the old one followed by the unique questions. *)
C8_OneStoreWritten ==
    (pc = "done" /\ result \in {"Staged", "Pipeline complete"}) =>
        /\ unique # <<>>
        /\ IF args.review
           THEN /\ result = "Staged"
                /\ calls[Len(calls)] = "stage_for_review"
                /\ \A i \in 1..Len(calls) : calls[i] # "append_questions"
                /\ bankFile = bank0
                /\ pendingFile.exists
                /\ IsPrefix(load_questions(pend0), Pending)
                /\ Added(load_questions(pend0), Pending) = unique
           ELSE /\ result = "Pipeline complete"
                /\ calls[Len(calls)] = "append_questions"
                /\ \A i \in 1..Len(calls) : calls[i] # "stage_for_review"
                /\ pendingFile = pend0
                /\ bankFile.exists
                /\ IsPrefix(load_questions(bank0), Bank)
                /\ Added(load_questions(bank0), Bank) = unique

(* a commit of two unique questions to an empty bank *)
C8_Witness ==
    /\ pc = "done" /\ result = "Pipeline complete"
    /\ Len(unique) = 2
    /\ bank0.exists /\ pendingFile = pend0
    /\ Len(Bank) = 2

(* C9: a run with --approve, whatever the other flags, calls approve_pending
   and nothing else: no fetch, generation, validation or deduplication, no
   network request; the files are what approve_pending makes of the files
   it found, and the run ends with status 0 (a run that approve_pending
   aborts on a malformed bank file has changed no file). *)
C9_ApproveShortCircuits ==
    (pc # "idle" /\ args.approve) =>
        /\ pc = "done"
        /\ calls = <<"approve_pending">>
        /\ net = <<>>
        /\ IF result = "JSONDecodeError"
           THEN bank0.data = Unparsable /\ FilesUntouched
           ELSE /\ bankFile = approve_pending(bank0, pend0).bank
                /\ pendingFile = approve_pending(bank0, pend0).pending
                /\ exit_code = 0

(* --approve together with --dry-run and --review: the pending question was
   merged into the bank all the same *)
C9_Witness ==
    /\ pc = "done" /\ args.approve /\ args.dry_run /\ args.review
    /\ result = "Approved"
    /\ pend0.exists /\ ~pendingFile.exists
    /\ Len(Bank) = Len(load_questions(bank0)) + 1

(* the terminal states of a run that ends with a non-zero status *)
FailureResults ==
    {"No news items fetched",
     "ANTHROPIC_API_KEY environment variable is not set",
     "No questions generated",
     "No valid questions after validation",
     "Traceback",
     "JSONDecodeError",
     "All questions were duplicates"}

(* the terminal states of a run that ends with status 0 *)
SuccessResults ==
    {"Dry run complete. No files were modified.", "Staged", "Pipeline complete",
     "Approved", "No pending questions to approve"}

(* C10: a finished run has status non-zero when no news was fetched, no
   questions were generated (the credential missing, or an empty result),
   no candidate passed validation (none valid, or validation aborted by an
   exception) or none was unique; it has status 0 in every other terminal
   state: preview, staged, committed, approved, nothing to approve. *)
C10_ExitStatus ==
    pc = "done" =>
        /\ result \in FailureResults \cup SuccessResults
        /\ (result \in FailureResults => exit_code # 0)
        /\ (result \in SuccessResults => exit_code = 0)

(* a run whose candidates were all duplicates of the bank *)
C10_Witness ==
    /\ pc = "done" /\ result = "All questions were duplicates"
    /\ exit_code = 1
    /\ calls = <<"fetch_news", "generate_questions", "validate_questions", "deduplicate">>
    /\ FilesUntouched

(* the stages of a generate run, in the order main() calls them *)
Stages == <<"fetch_news", "generate_questions", "validate_questions", "deduplicate">>

(* C11: in a generate run the functions are called in the order fetch_news,
   generate_questions, validate_questions, deduplicate and then one store
   function, each at most once; a stage starts only when the stage before
   it returned a non-empty list; a run that ended on an empty result called
   nothing after that stage and wrote no file; and a file differs from what
   the run found only when all four stages were called and the unique list
   is non-empty. *)
C11_StrictStageOrder ==
    (pc # "idle" /\ ~args.approve) =>
        /\ Len(calls) <= Len(Stages) + 1
        /\ \A i \in 1..Min(Len(calls), Len(Stages)) : calls[i] = Stages[i]
        /\ (Len(calls) = Len(Stages) + 1 =>
                calls[Len(calls)] \in {"stage_for_review", "append_questions"})
        /\ (pc = "fetch" => calls = <<>>)
        /\ (pc = "generate" => Len(calls) = 1 /\ news # <<>>)
        /\ (pc = "validate" => Len(calls) = 2 /\ raw_questions # <<>>)
        /\ (pc = "dedup" => Len(calls) = 3 /\ valid # <<>>)
        /\ (pc = "output" => Len(calls) = 4 /\ unique # <<>>)
        /\ (result = "No news items fetched" => Len(calls) = 1 /\ FilesUntouched)
        /\ (result = "No questions generated" => Len(calls) = 2 /\ FilesUntouched)
        /\ (result = "No valid questions after validation" =>
                Len(calls) = 3 /\ FilesUntouched)
        /\ (result = "All questions were duplicates" => Len(calls) = 4 /\ FilesUntouched)
        /\ (~FilesUntouched => Len(calls) = Len(Stages) + 1 /\ unique # <<>>)

(* a run that stopped after validation rejected every candidate *)
C11_Witness ==
    /\ pc = "done" /\ ~args.approve
    /\ result = "No valid questions after validation"
    /\ calls = <<"fetch_news", "generate_questions", "validate_questions">>
    /\ net = <<"rss", "api">>
    /\ FilesUntouched


(***************************************************************************)
(* Validation claims.  The problems of a candidate are stated here from    *)
(* its fields alone, without the validator.                                *)
(***************************************************************************)
RequiredNames == {"category", "difficulty", "question", "correct_answer",
                  "incorrect_answers", "source"}

(* a candidate of the declared shape: an object whose fields, where present,
   are strings, except incorrect_answers, a list of strings *)
WellTyped(c) ==
    /\ IsDict(c)
    /\ \A k \in DOMAIN c[2] :
          IF k = "incorrect_answers"
          THEN IsList(c[2][k]) /\ \A j \in 1..Len(c[2][k][2]) : IsStr(c[2][k][2][j])
          ELSE IsStr(c[2][k])

Blank(text) == \A i \in 1..Len(text) : text[i] \in {" ", "\t", "\n"}

MissingOrEmpty(c, k) == k \notin DOMAIN c[2] \/ c[2][k][2] = <<>>

WrongLength(c) ==
    "incorrect_answers" \in DOMAIN c[2] /\ Len(c[2]["incorrect_answers"][2]) # 3

BadDifficulty(c) ==
    \/ "difficulty" \notin DOMAIN c[2]
    \/ c[2]["difficulty"] \notin {JStr(<<"easy">>), JStr(<<"medium">>), JStr(<<"hard">>)}

BlankCorrect(c) == "correct_answer" \in DOMAIN c[2] /\ Blank(c[2]["correct_answer"][2])

BlankIncorrect(c, j) ==
    /\ "incorrect_answers" \in DOMAIN c[2]
    /\ j \in 1..Len(c[2]["incorrect_answers"][2])
    /\ Blank(c[2]["incorrect_answers"][2][j][2])

HasProblem(c) ==
    \/ \E k \in RequiredNames : MissingOrEmpty(c, k)
    \/ WrongLength(c)
    \/ BadDifficulty(c)
    \/ BlankCorrect(c)
    \/ \E j \in 1..3 : BlankIncorrect(c, j)

ValidateCalled == call.fn = "validate_questions"

ValidateOne == ValidateCalled /\ Len(call.arg) = 1 /\ WellTyped(call.arg[1])

(* C12: for every candidate c of the declared shape, validate_questions([c])
   rejects c exactly when a required field is missing or empty, or
   incorrect_answers has a length other than 3, or difficulty is not one of
   easy, medium, hard, or correct_answer or an incorrect answer is blank after
   trimming; otherwise c is accepted. *)
C12_RejectsIffProblem ==
    ValidateOne =>
        /\ ~call.ret.raised
        /\ HasProblem(call.arg[1]) =>
               /\ call.ret.valid = <<>>
               /\ Len(call.ret.invalid) = 1
               /\ call.ret.invalid[1].question = call.arg[1]
        /\ ~HasProblem(call.arg[1]) =>
               /\ call.ret.valid = call.arg
               /\ call.ret.invalid = <<>>

(* a candidate whose only problem is a blank incorrect answer was rejected *)
C12_Witness ==
    /\ ValidateOne
    /\ BlankIncorrect(call.arg[1], 2)
    /\ ~WrongLength(call.arg[1]) /\ ~BadDifficulty(call.arg[1]) /\ ~BlankCorrect(call.arg[1])
    /\ \A k \in RequiredNames : ~MissingOrEmpty(call.arg[1], k)
    /\ Len(call.ret.invalid) = 1 /\ call.ret.valid = <<>>

(* the reasons recorded for the only candidate of the call *)
Reasons == Range(call.ret.invalid[1].errors)

(* C13 (as stated): the reason list of a rejected candidate holds every
   problem the candidate has: each missing or empty required field, a wrong
   number of incorrect answers, an invalid difficulty, each blank answer. *)
C13_AllProblemsReported ==
    (ValidateOne /\ Len(call.ret.invalid) = 1) =>
        LET c == call.arg[1]
        IN  /\ \A k \in RequiredNames :
                  MissingOrEmpty(c, k) => Err("missing or empty field", k, 0) \in Reasons
            /\ (~MissingOrEmpty(c, "incorrect_answers") /\ WrongLength(c)) =>
                  Err("need exactly 3 incorrect_answers", "",
                      Len(c[2]["incorrect_answers"][2])) \in Reasons
            /\ (~MissingOrEmpty(c, "difficulty") /\ BadDifficulty(c)) =>
                  Err("invalid difficulty", "", 0) \in Reasons
            /\ (~MissingOrEmpty(c, "correct_answer") /\ BlankCorrect(c)) =>
                  Err("correct_answer is empty", "", 0) \in Reasons
            /\ \A j \in 1..4 :
                  (~MissingOrEmpty(c, "incorrect_answers") /\ BlankIncorrect(c, j)) =>
                      Err("incorrect_answers[j] is empty", "", j - 1) \in Reasons

(* C14: a candidate whose category is outside the fixed list and whose other
   fields are all valid is accepted, with no rejection reason recorded. *)
C14_UnknownCategoryAccepted ==
    (/\ ValidateOne
     /\ ~HasProblem(call.arg[1])
     /\ call.arg[1][2]["category"] \notin VALID_CATEGORIES) =>
        /\ ~call.ret.raised
        /\ call.ret.valid = call.arg
        /\ call.ret.invalid = <<>>

C14_Witness ==
    /\ ValidateOne
    /\ ~HasProblem(call.arg[1])
    /\ call.arg[1][2]["category"] = JStr(<<"Space Diplomacy">>)
    /\ call.ret.valid = call.arg

(* C15: the accepted list is the accepted candidates of the input in input
   order, and the k-th rejected entry pairs the k-th rejected candidate,
   unmodified, with a non-empty reason list. *)
C15_OrderAndPairing ==
    (ValidateCalled /\ \A i \in 1..Len(call.arg) : WellTyped(call.arg[i])) =>
        LET accepted == SelectSeq(call.arg, LAMBDA c : ~HasProblem(c))
            rejected == SelectSeq(call.arg, LAMBDA c : HasProblem(c))
        IN  /\ ~call.ret.raised
            /\ call.ret.valid = accepted
            /\ Len(call.ret.invalid) = Len(rejected)
            /\ \A k \in 1..Len(rejected) :
                  /\ call.ret.invalid[k].question = rejected[k]
                  /\ call.ret.invalid[k].errors # <<>>

(* two different accepted candidates, kept in input order *)
C15_Witness ==
    /\ ValidateCalled
    /\ Len(call.arg) = 2
    /\ ~call.ret.raised
    /\ call.arg[1] # call.arg[2]
    /\ ~HasProblem(call.arg[1]) /\ ~HasProblem(call.arg[2])
    /\ call.ret.valid = call.arg


(***************************************************************************)
(* Deduplication claims.                                                   *)
(***************************************************************************)
(* similarity of two texts is at least 0.85 *)
Near(a, b) == LET r == similarity(a, b) IN r[1] * 100 >= 85 * r[2]

QText(q) == q[2]["question"][2]

NearBank(q, bank) == \E k \in 1..Len(bank) : Near(QText(q), QText(bank[k]))

(* the rule of the two phases for the candidate at position i: similar to a
   bank text, or to an earlier candidate that is not itself a duplicate *)
RECURSIVE IsDupAt(_, _, _)
IsDupAt(new, bank, i) ==
    \/ NearBank(new[i], bank)
    \/ \E k \in 1..(i - 1) : ~IsDupAt(new, bank, k) /\ Near(QText(new[k]), QText(new[i]))

(* the elements of seq at the positions of S from position i on, in order *)
RECURSIVE SubseqAt(_, _, _)
SubseqAt(seq, S, i) ==
    IF i > Len(seq) THEN <<>>
    ELSE (IF i \in S THEN <<seq[i]>> ELSE <<>>) \o SubseqAt(seq, S, i + 1)

DedupCalled == call.fn = "deduplicate"

(* C16: deduplicate(new, bank) splits the batch into unique and dupes, both
   in input order and together holding every candidate once; a candidate is a
   duplicate exactly when its text is at least 0.85 similar to a bank text or
   to a candidate placed in unique earlier in the batch; so no member of
   unique is that similar to a bank text or to an earlier member of unique. *)
C16_DedupPartition ==
    DedupCalled =>
        LET new == call.arg.new
            bank == call.arg.bank
            D == {i \in 1..Len(new) : IsDupAt(new, bank, i)}
            u == call.ret.unique
        IN  /\ ~call.ret.raised
            /\ u = SubseqAt(new, (1..Len(new)) \ D, 1)
            /\ call.ret.dupes = SubseqAt(new, D, 1)
            /\ Len(u) + Len(call.ret.dupes) = Len(new)
            /\ \A k \in 1..Len(u) :
                  /\ ~NearBank(u[k], bank)
                  /\ \A m \in 1..(k - 1) : ~Near(QText(u[m]), QText(u[k]))

(* the second candidate resembles no bank text but resembles the first, which
   was kept: it is the only duplicate *)
C16_Witness ==
    /\ DedupCalled
    /\ Len(call.arg.new) = 2
    /\ call.arg.bank # <<>>
    /\ ~NearBank(call.arg.new[2], call.arg.bank)
    /\ QText(call.arg.new[1]) # QText(call.arg.new[2])
    /\ call.ret.unique = <<call.arg.new[1]>>
    /\ call.ret.dupes = <<call.arg.new[2]>>

(* C17 (as stated): for candidates at positions i < j of a batch with
   similarity at least 0.85, the one at i is in unique and the one at j is in
   dupes, whatever the bank holds. *)
C17_FirstOccurrenceSurvives ==
    DedupCalled =>
        \A i, j \in 1..Len(call.arg.new) :
            (i < j /\ Near(QText(call.arg.new[i]), QText(call.arg.new[j]))) =>
                /\ call.arg.new[i] \in Range(call.ret.unique)
                /\ call.arg.new[j] \in Range(call.ret.dupes)

(* C17 (amended): for candidates at positions i < j with similarity at least
   0.85, the later one is dropped whenever the earlier one is kept; the
   earlier one is dropped only when it is itself that similar to a bank text
   or to an earlier candidate that was kept, and is kept when it resembles no
   bank text and no earlier candidate. *)
C17_FirstUnmatchedSurvives ==
    DedupCalled =>
        LET new == call.arg.new
            bank == call.arg.bank
        IN  \A i, j \in 1..Len(new) :
                (i < j /\ Near(QText(new[i]), QText(new[j]))) =>
                    /\ new[i] \in Range(call.ret.unique) =>
                          /\ new[j] \in Range(call.ret.dupes)
                          /\ new[j] \notin Range(call.ret.unique)
                    /\ new[i] \in Range(call.ret.dupes) =>
                          \/ NearBank(new[i], bank)
                          \/ \E k \in 1..(i - 1) :
                                /\ new[k] \in Range(call.ret.unique)
                                /\ Near(QText(new[k]), QText(new[i]))
                    /\ (/\ ~NearBank(new[i], bank)
                        /\ \A k \in 1..(i - 1) : ~Near(QText(new[k]), QText(new[i]))) =>
                          new[i] \in Range(call.ret.unique)

(* a similar pair with a bank that holds something else: the first of the
   pair was kept and the second dropped *)
C17_Witness ==
    /\ DedupCalled
    /\ Len(call.arg.new) = 2
    /\ Len(call.arg.bank) = 1
    /\ Near(QText(call.arg.new[1]), QText(call.arg.new[2]))
    /\ ~NearBank(call.arg.new[1], call.arg.bank)
    /\ call.arg.new[1] \in Range(call.ret.unique)
    /\ call.arg.new[2] \in Range(call.ret.dupes)

(* the texts are equal up to the case of their letters *)
SameButCase(a, b) ==
    /\ Len(a) = Len(b)
    /\ \A i \in 1..Len(a) :
          \/ a[i] = b[i]
          \/ \E n \in 1..26 : {a[i], b[i]} = {Upper[n], Lower[n]}

(* C18: similarity(a, a) is 1.0 for every text a, two texts that differ only
   in letter case have similarity 1.0, and deduplicate puts a candidate whose
   text differs only in case from an earlier candidate's or a bank text in
   dupes. *)
C18_CaseInsensitive ==
    /\ call.fn = "similarity" =>
          /\ call.arg[1] = call.arg[2] => call.ret[2] > 0 /\ call.ret[1] = call.ret[2]
          /\ SameButCase(call.arg[1], call.arg[2]) =>
                call.ret[2] > 0 /\ call.ret[1] = call.ret[2]
    /\ DedupCalled =>
          \A j \in 1..Len(call.arg.new) :
              (\/ \E i \in 1..(j - 1) :
                      SameButCase(QText(call.arg.new[i]), QText(call.arg.new[j]))
               \/ \E k \in 1..Len(call.arg.bank) :
                      SameButCase(QText(call.arg.bank[k]), QText(call.arg.new[j]))) =>
                  call.arg.new[j] \in Range(call.ret.dupes)

(* two different non-empty texts that differ only in case got ratio 1 *)
C18_Witness ==
    /\ call.fn = "similarity"
    /\ call.arg[1] # call.arg[2]
    /\ Len(call.arg[1]) = 2
    /\ SameButCase(call.arg[1], call.arg[2])
    /\ call.ret[1] = call.ret[2]

UNCall ==
    /\ DedupCalled
    /\ call.arg.new = <<MkQ(TextUN, "easy")>>
    /\ call.arg.bank = <<MkQ(TextUnitedNations, "easy")>>

(* C19 (as stated): for the candidate "What year did the UN form?" and the
   bank text "What year did the United Nations form?" the ratio is at least
   0.85 and deduplicate puts the candidate in dupes, not in unique. *)
C19_UNIsDuplicate ==
    UNCall =>
        /\ Near(TextUN, TextUnitedNations)
        /\ call.ret.dupes = call.arg.new
        /\ call.ret.unique = <<>>

(* C19 (amended): for these two texts the matching blocks hold 26 characters
   of the 64, the ratio is 52/64 = 0.8125, below 0.85, and deduplicate puts
   the candidate in unique, not in dupes. *)
C19_UNIsUnique ==
    UNCall =>
        /\ similarity(TextUN, TextUnitedNations) = <<52, 64>>
        /\ ~Near(TextUN, TextUnitedNations)
        /\ call.ret.unique = call.arg.new
        /\ call.ret.dupes = <<>>

C19_Witness == UNCall /\ ~call.ret.raised /\ Len(call.ret.unique) = 1


(***************************************************************************)
(* Generation claims.                                                      *)
(***************************************************************************)
GenerateCalled == call.fn = "generate_questions"

(* the generation call failed in transport, or its text is not JSON, or the
   JSON is not an array *)
FailedResponse(o) ==
    \/ o.kind = "APIError"
    \/ ~o.text.body.json
    \/ o.text.body.value[1] # "list"

(* C20 (as stated): on a missing credential, a transport error, a response
   that is not valid JSON or a JSON response that is not an array,
   generate_questions returns an empty list and neither raises nor ends the
   process. *)
C20_FailsClosed ==
    (GenerateCalled /\ (~call.arg.env.api_key \/ FailedResponse(call.arg.env.outcome))) =>
        /\ call.ret.kind = "return"
        /\ call.ret.value = <<>>

(* C20 (amended): with the credential present, generate_questions returns an
   empty list on a transport error, on a response that is not valid JSON and
   on a JSON response that is not an array, and what it returns is empty or
   the whole parsed array; with the credential missing it ends the process
   with sys.exit(1), before any request is sent. *)
C20_FailsClosedWithCredential ==
    GenerateCalled =>
        /\ ~call.arg.env.api_key =>
              /\ call.ret.kind = "exit"
              /\ ~call.ret.requested
        /\ (call.arg.env.api_key /\ FailedResponse(call.arg.env.outcome)) =>
              /\ call.ret.kind = "return"
              /\ call.ret.value = <<>>
        /\ (call.arg.env.api_key /\ ~FailedResponse(call.arg.env.outcome)) =>
              /\ call.ret.kind = "return"
              /\ call.ret.value \in {<<>>, call.arg.env.outcome.text.body.value[2]}

(* a call with news to send and no credential ended the process *)
C20_Witness ==
    /\ GenerateCalled
    /\ call.arg.news_items # <<>>
    /\ ~call.arg.env.api_key
    /\ call.ret.kind = "exit"


(***************************************************************************)
(* Runs without the credential.                                            *)
(***************************************************************************)
(* the run ended on the missing credential *)
EndedWithoutCredential ==
    pc = "done" /\ result = "ANTHROPIC_API_KEY environment variable is not set"

(* C21 (as stated): a run without the generation credential stops before any
   network activity: it retrieves no feed and sends no generation request. *)
C21_NoNetworkWithoutCredential ==
    EndedWithoutCredential => net = <<>>


(***************************************************************************)
(* Code fences around the response.                                        *)
(***************************************************************************)
(* a call with the credential and news, answered by a text with a fence *)
FencedCall ==
    /\ GenerateCalled
    /\ call.arg.env.api_key
    /\ call.arg.news_items # <<>>
    /\ call.arg.env.outcome.kind = "text"
    /\ (call.arg.env.outcome.text.open # "none" \/ call.arg.env.outcome.text.close)

(* C22 (as stated): a response wrapped in a leading or a trailing code fence
   or both, with or without a language tag, parses to the value of the bare
   text: generate_questions returns the array the text between the fences
   holds. *)
C22_FencedParsesAsBare ==
    (/\ FencedCall
     /\ call.arg.env.outcome.text.body.json
     /\ call.arg.env.outcome.text.body.value[1] = "list") =>
        /\ call.ret.kind = "return"
        /\ call.ret.value = call.arg.env.outcome.text.body.value[2]


(***************************************************************************)
(* Fetch claims.                                                           *)
(***************************************************************************)
FetchCalled == call.fn = "fetch_news"

(* the feed was retrieved: parsing did not raise and it is not a malformed
   feed without entries *)
Retrieved(o) == ~o.raises /\ ~(o.bozo /\ o.entries = <<>>)

Titled(entry) == "title" \in DOMAIN entry /\ ~Blank(entry["title"])

(* the entries of a retrieved feed that become items: those with a title
   among the first m *)
Delivered(o, m) ==
    IF ~Retrieved(o) THEN <<>>
    ELSE SelectSeq(SubSeq(o.entries, 1, IF Len(o.entries) < m THEN Len(o.entries) ELSE m),
                   Titled)

FeedIndex(name) == CHOOSE i \in 1..Len(RSS_FEEDS) : RSS_FEEDS[i] = name

(* C23 (as stated): whenever at least one feed is retrieved, the result of
   fetch_news is not empty. *)
C23_NonEmptyIfRetrieved ==
    (FetchCalled /\ \E i \in 1..5 : Retrieved(call.arg.outcomes[i])) => call.ret # <<>>

(* C23 (amended): fetch_news returns an empty sequence exactly when no feed
   delivers an item: each feed raises, is malformed without entries, or has no
   entry with a non-blank title among its first max_per_feed entries.  One
   retrieved feed with such an entry makes the result non-empty, whatever the
   other feeds do. *)
C23_EmptyIffNothingDelivered ==
    FetchCalled =>
        (call.ret = <<>>
            <=> \A i \in 1..5 : Delivered(call.arg.outcomes[i], call.arg.max_per_feed) = <<>>)

(* one feed delivered, each of the other four raised or was malformed *)
C23_Witness ==
    /\ FetchCalled
    /\ Retrieved(call.arg.outcomes[2])
    /\ \A i \in {1, 3, 4, 5} : ~Retrieved(call.arg.outcomes[i])
    /\ call.arg.outcomes[1].raises
    /\ call.ret # <<>>

(* C24: whichever feeds fail, fetch_news returns, and its result holds, for
   each retrieved feed, the items of its titled entries among the first
   max_per_feed, in entry order, and nothing for a failing feed; the items
   are in feed order. *)
C24_FeedFailureNotFatal ==
    FetchCalled =>
        /\ \A i \in 1..5 :
              LET mine == SelectSeq(call.ret, LAMBDA item : item.source = RSS_FEEDS[i])
                  sent == Delivered(call.arg.outcomes[i], call.arg.max_per_feed)
              IN  /\ Len(mine) <= call.arg.max_per_feed
                  /\ Len(mine) = Len(sent)
                  /\ \A k \in 1..Len(sent) : mine[k].title = strip(sent[k]["title"])
        /\ \A a, b \in 1..Len(call.ret) :
              a < b => FeedIndex(call.ret[a].source) <= FeedIndex(call.ret[b].source)

(* the first feed raised, the second delivered its first max_per_feed
   entries and the last feed delivered after two more failures *)
C24_Witness ==
    /\ FetchCalled
    /\ call.arg.outcomes[1].raises
    /\ Len(call.arg.outcomes[2].entries) > call.arg.max_per_feed
    /\ ~Retrieved(call.arg.outcomes[3]) /\ ~Retrieved(call.arg.outcomes[4])
    /\ Len(call.ret) = 2 * call.arg.max_per_feed
    /\ call.ret[1].source = RSS_FEEDS[2]
    /\ call.ret[Len(call.ret)].source = RSS_FEEDS[5]

(* C25 (as stated): every item fetch_news returns has a summary that is not
   empty and has at most 500 characters. *)
C25_SummaryBounded ==
    FetchCalled =>
        \A k \in 1..Len(call.ret) :
            /\ call.ret[k].summary # <<>>
            /\ Len(call.ret[k].summary) <= 500


(***************************************************************************)
(* A bank file with malformed content.                                     *)
(***************************************************************************)
(* the runs that read the bank: every run that reaches step 4, and an
   approve run with records pending *)
ReadTheBank ==
    \/ args.approve /\ pend0.exists /\ pend0.data # <<>>
    \/ ~args.approve /\ Len(calls) >= 3
       /\ result \notin {"No valid questions after validation", "Traceback"}

(* C26: when the bank file has malformed content, a run that reads it (in
   dry-run, review, commit or approve mode) ends with the propagated parse
   failure and a non-zero status; the bank file is never rewritten, and the
   pending file of a failed approve stays in place with its contents. *)
C26_MalformedBankIsHardStop ==
    (pc # "idle" /\ bank0 = [exists |-> TRUE, data |-> <<<<"unparsable">>>>]) =>
        /\ bankFile = bank0
        /\ pendingFile = pend0
        /\ (pc = "done" /\ ReadTheBank) =>
              /\ result = "JSONDecodeError"
              /\ exit_code = 1
              /\ "deduplicate" \notin Range(calls)

(* an approve run with a record pending failed on the bank and left the
   pending record where it was *)
C26_Witness ==
    /\ pc = "done"
    /\ args.approve
    /\ bank0 = CorruptBank
    /\ result = "JSONDecodeError"
    /\ Len(load_questions(pendingFile)) = 1
    /\ pendingFile = pend0
    /\ bankFile = bank0


(***************************************************************************)
(* Concurrent invocations.                                                 *)
(***************************************************************************)
RaceDone == \A p \in Procs : procs[p].pc = "done"

(* C27: two concurrent invocations of append_questions can lose an update.
   Whenever the invocation that saves last had loaded the bank before the
   other one saved, both have returned a positive count and the final bank
   is the initial bank plus the questions of the last saver only; when it
   loaded after the other's save, the bank holds the questions of both. *)
C27_LostUpdate ==
    (procs # <<>> /\ RaceDone) =>
        \A p, q \in Procs :
            (p # q /\ procs[p].order = 2) =>
                /\ procs[p].ret = Len(procs[p].new_qs) /\ procs[p].ret > 0
                /\ procs[q].ret = Len(procs[q].new_qs) /\ procs[q].ret > 0
                /\ IF procs[p].loaded = bank0
                   THEN /\ Len(load_questions(bankFile))
                             = Len(load_questions(bank0)) + Len(procs[p].new_qs)
                        /\ Added(load_questions(bank0), load_questions(bankFile))
                             = procs[p].new_qs
                   ELSE /\ Len(load_questions(bankFile))
                             = Len(load_questions(bank0)) + Len(procs[p].new_qs)
                               + Len(procs[q].new_qs)
                        /\ Added(load_questions(bank0), load_questions(bankFile))
                             = procs[q].new_qs \o procs[p].new_qs

(* both invocations returned a positive count, and the bank holds the one
   question of the second and not the different question of the first *)
C27_Witness ==
    /\ procs # <<>> /\ RaceDone
    /\ procs[1].ret = 1 /\ procs[2].ret = 1
    /\ procs[1].new_qs # procs[2].new_qs
    /\ procs[1].order = 1
    /\ Len(load_questions(bankFile)) = Len(load_questions(bank0)) + 1
    /\ Added(load_questions(bank0), load_questions(bankFile)) = procs[2].new_qs

(***************************************************************************)
(* Properties of the question-serving page.                                *)
(***************************************************************************)
SessionOpen == serve # NoServe /\ serve.sessions > 0

(* C28: the serving side only reads the bank file and reads it again for
   every session: the questions a session is served from are the contents
   the bank file had when the session started, also when the pipeline
   rewrote the bank after an earlier session read it *)
C28_SessionReadsCurrentBank ==
    SessionOpen => serve.ALL_QUESTIONS = page_read_questions(serve.bank_at_start)

RoundPlayed == SessionOpen /\ serve.round.mode # "none"

(* the ids of the questions in qs *)
IdsOf(qs) == {dict_get(qs[i], "id") : i \in 1..Len(qs)}

(* every eligible question of the round's mode had been served in the
   session before the round *)
PoolExhausted ==
    IdsOf(mode_pool(serve.round.mode, serve.ALL_QUESTIONS)) \subseteq serve.round.seen_before

(* C29: a round of select_questions returns a question already served in
   the session only when every eligible question of the mode had been
   served, and only then is the seen set cleared and diplo_pool_reset set *)
C29_NoRepeatUntilExhausted ==
    RoundPlayed =>
        /\ (IdsOf(serve.round.selected) \cap serve.round.seen_before # {}) => PoolExhausted
        /\ serve.diplo_pool_reset => PoolExhausted
        /\ ~serve.diplo_pool_reset =>
               serve.diplo_seen_ids
                   = serve.round.seen_before \cup IdsOf(serve.round.selected)

(***************************************************************************)
(* Properties of the pending file.                                         *)
(***************************************************************************)
(* the characters after "pending_" in the id of record q *)
PendingSuffix(q) == SubSeq(IdText(q), Len(PendingPrefix) + 1, Len(IdText(q)))

(* record q carries the id pending_n *)
HasPendingNumber(q, n) ==
    /\ IsPendingId(q)
    /\ IsInt(PendingSuffix(q))
    /\ int(PendingSuffix(q)) = n

(* record q is candidate c with an id and a staging timestamp added *)
StagedFrom(q, c) ==
    /\ DOMAIN q[2] = DOMAIN c[2] \cup {"id", "staged_at"}
    /\ \A k \in DOMAIN c[2] \ {"id", "staged_at"} : q[2][k] = c[2][k]
    /\ q[2]["staged_at"] \in {JStr(t) : t \in Timestamps}

(* C30: stage_for_review appends the candidates to the pending file with
   the ids pending_L, pending_(L+1), ... for L the pending length before
   the call and with a staged_at timestamp, and leaves the earlier records
   as they were; after any sequence of stage_for_review and approve_pending
   calls the record at position i (from 0) has the id pending_i and the ids
   in the file are pairwise distinct *)
C30_PendingIdsByPosition ==
    /\ \A i \in 1..Len(Pending) : HasPendingNumber(Pending[i], i - 1)
    /\ \A i, j \in 1..Len(Pending) : i # j => IdText(Pending[i]) # IdText(Pending[j])
    /\ last.op = "stage_for_review" =>
           LET before == load_questions(last.pend0)
               L == Len(before)
           IN  /\ Len(Pending) = L + Len(last.arg)
               /\ SubSeq(Pending, 1, L) = before
               /\ \A i \in 1..Len(last.arg) :
                      /\ HasPendingNumber(Pending[L + i], L + i - 1)
                      /\ StagedFrom(Pending[L + i], last.arg[i])

(* a second stage_for_review call has added a record to a pending file
   that already held one *)
C30_Witness ==
    /\ last.op = "stage_for_review"
    /\ Len(load_questions(last.pend0)) = 1
    /\ Len(last.arg) = 1
    /\ Len(Pending) = 2
    /\ HasPendingNumber(Pending[2], 1)

(***************************************************************************)
(* Properties of the id format on large banks.                             *)
(***************************************************************************)
AppendLargeCalled == call.fn = "append_questions"

(* the digits after "diplo_" in the id of record q *)
IdDigits(q) == SubSeq(IdText(q), Len(DiploPrefix) + 1, Len(IdText(q)))

(* the k-th record the call wrote after the records the bank held *)
Written(k) == load_questions(call.ret.bank)[call.arg.size + k]

(* the statement of C31 as made: every id append_questions writes is
   diplo_ followed by exactly 3 digits, also on a bank that grows past 999
   questions *)
C31_IdsHaveThreeDigits ==
    AppendLargeCalled =>
        \A k \in 1..Len(call.arg.new_qs) :
            IsBankId(Written(k)) /\ Len(IdDigits(Written(k))) = IdWidth

(* C31: every id append_questions writes is diplo_ followed by the decimal
   number of the record, zero-padded to at least 3 digits: exactly 3 digits
   for the numbers up to 999, and all the digits of the number, without a
   leading zero, from 1000 on *)
C31_IdsPaddedToAtLeastThreeDigits ==
    AppendLargeCalled =>
        \A k \in 1..Len(call.arg.new_qs) :
            LET n == call.arg.size + k - 1
                digits == IdDigits(Written(k))
            IN  /\ IsBankId(Written(k))
                /\ int(digits) = n
                /\ IF n < IdCapacity
                   THEN Len(digits) = IdWidth
                   ELSE Len(digits) > IdWidth /\ digits[1] # "0"

(* two questions were appended to a bank of 999: the second one got the id
   diplo_1000 *)
C31_Witness ==
    /\ AppendLargeCalled
    /\ call.arg.size = IdCapacity - 1
    /\ Len(call.arg.new_qs) = 2
    /\ IdText(Written(1)) = DiploPrefix \o <<"9", "9", "9">>
    /\ IdText(Written(2)) = DiploPrefix \o <<"1", "0", "0", "0">>

(***************************************************************************)
(* Properties of one round of select_questions.                            *)
(***************************************************************************)
(* the difficulties a mode draws from *)
ModeDifficulties(mode) ==
    IF mode = "hard" THEN {Tok("hard"), Tok("medium")} ELSE {Tok("easy"), Tok("medium")}

(* the number of questions of ALL_QUESTIONS the round's mode draws from *)
EligibleCount ==
    Cardinality({i \in 1..Len(serve.ALL_QUESTIONS) :
                    dict_get(serve.ALL_QUESTIONS[i], "difficulty")
                        \in ModeDifficulties(serve.round.mode)})

(* C32: select_questions(mode, count) returns min(count, number of eligible
   questions) questions, none of them twice, each of a difficulty of the
   mode; afterwards the id of every returned question is in diplo_seen_ids,
   and when diplo_pool_reset is false none of the returned ids was in
   diplo_seen_ids before the call *)
C32_RoundIsWellFormed ==
    RoundPlayed =>
        LET selected == serve.round.selected
        IN  /\ Len(selected) = Min(serve.round.count, EligibleCount)
            /\ \A i, j \in 1..Len(selected) :
                   i # j => /\ selected[i] # selected[j]
                            /\ dict_get(selected[i], "id") # dict_get(selected[j], "id")
            /\ \A i \in 1..Len(selected) :
                   /\ dict_get(selected[i], "difficulty")
                          \in ModeDifficulties(serve.round.mode)
                   /\ dict_get(selected[i], "id") \in serve.diplo_seen_ids
                   /\ ~serve.diplo_pool_reset =>
                          dict_get(selected[i], "id") \notin serve.round.seen_before

(* a second round of two questions was drawn without a reset after a
   round of one question *)
C32_Witness ==
    /\ RoundPlayed
    /\ serve.rounds = 2
    /\ serve.round.count = 2
    /\ Len(serve.round.selected) = 2
    /\ Cardinality(serve.round.seen_before) = 1
    /\ ~serve.diplo_pool_reset
    /\ Cardinality(serve.diplo_seen_ids) = 3

(***************************************************************************)
(* Termination of a run.                                                   *)
(***************************************************************************)
(* C33: a started run has no retry loop and is not cancelled: when every
   external call returns or raises, the run eventually reaches its one
   terminal state, which is a success, an empty-result stop or an
   unrecoverable error *)
C33_RunTerminates ==
    /\ [][Running => Advance]_pc
    /\ Running ~> (pc = "done" /\ result \in SuccessResults \cup FailureResults)

(* a generate run went through all five stages and ended *)
C33_Witness ==
    /\ pc = "done"
    /\ runs = 1
    /\ ~args.approve
    /\ result \in SuccessResults
    /\ "deduplicate" \in Range(calls)

(***************************************************************************)
(* Near-duplicates in the bank across runs.                                *)
(***************************************************************************)
(* C34: from a bank in which no two question texts have similarity of 0.85
   or more, every sequence of runs in commit, review and approve mode
   leaves a bank in which no two question texts have similarity of 0.85 or
   more *)
C34_BankHasNoNearDuplicates ==
    bankFile.data # Unparsable =>
        \A i, j \in 1..Len(Bank) :
            i < j => ~Near(QText(Bank[i]), QText(Bank[j]))

(***************************************************************************)
(* The number of questions a run stores.                                   *)
(***************************************************************************)
(* C35: a finished generate run invoked with --count n has added at most n
   questions to the bank and at most n to the pending file, whatever the
   number of elements in the generation response *)
C35_AtMostCountStored ==
    (pc = "done" /\ ~args.approve) =>
        /\ Len(Bank) - Len(load_questions(bank0)) <= args.count
        /\ Len(Pending) - Len(load_questions(pend0)) <= args.count

(***************************************************************************)
(* Totality of validate_questions.                                         *)
(***************************************************************************)
(* C36: validate_questions never raises on a parsed JSON array, whatever
   its elements and answer values are, and every element of the input is in
   exactly one of the two output lists, so the lengths of the two lists add
   up to the length of the input *)
C36_ValidateIsTotal ==
    ValidateCalled =>
        /\ ~call.ret.raised
        /\ Len(call.ret.valid) + Len(call.ret.invalid) = Len(call.arg)

(***************************************************************************)
(* Game-session claims.                                                    *)
(***************************************************************************)
(* the number of True entries of round_results *)
PlayCorrectCount == Len(SelectSeq(game.round_results, LAMBDA r : r))

(* the number of entries of diplo_results marked correct *)
DiploCorrectCount == Len(SelectSeq(game.diplo_results, LAMBDA r : r.correct))

ScoresAgree ==
    /\ game.score = PlayCorrectCount
    /\ game.diplo_score = DiploCorrectCount
    /\ game.streak <= game.score
    /\ game.diplo_streak <= game.diplo_score
    /\ game.best_streak >= game.streak
    /\ game.best_streak >= game.diplo_streak
    /\ game.total_correct <= game.total_played

StatsGrow ==
    /\ game'.best_streak >= game.best_streak
    /\ game'.total_played >= game.total_played
    /\ game'.total_correct >= game.total_correct

(* C37: in every state of a game session on the Play and Diplomacy pages the
   round score of each page is the number of correct entries of its round
   results, its streak is at most its score, best_streak is at least both
   streaks, total_correct is at most total_played, and no step lowers
   best_streak or the totals *)
C37_ScoresAndStreaksAgree == [](ScoresAgree) /\ [][StatsGrow]_vars

(* a second round on the other page after a round with a right and then a
   wrong answer: the earlier streak survives only in best_streak *)
C37_Witness ==
    /\ game.rounds = 2
    /\ game.diplo_active /\ game.diplo_score = 1 /\ game.diplo_streak = 1
    /\ Len(game.round_results) = 2 /\ game.score = 1 /\ game.streak = 0
    /\ game.best_streak = 1
    /\ game.total_played = 3 /\ game.total_correct = 2

RoundInStep ==
    /\ game.game_active =>
          /\ Len(game.round_results)
                = game.current_idx + (IF game.answered THEN 1 ELSE 0)
          /\ game.current_idx <= Len(game.questions)
          /\ PlayPhase = "results" => Len(game.round_results) = Len(game.questions)
    /\ game.diplo_active =>
          /\ Len(game.diplo_results)
                = game.diplo_idx + (IF game.diplo_answered THEN 1 ELSE 0)
          /\ game.diplo_idx <= Len(game.diplo_questions)
          /\ DiploPhase = "results" => Len(game.diplo_results) = Len(game.diplo_questions)

IndexStep ==
    /\ (game.game_active /\ game'.game_active
           /\ game'.current_idx # game.current_idx) =>
          /\ game.answered
          /\ game'.current_idx = game.current_idx + 1
          /\ game'.round_results = game.round_results
    /\ (game.diplo_active /\ game'.diplo_active
           /\ game'.diplo_idx # game.diplo_idx) =>
          /\ game.diplo_answered
          /\ game'.diplo_idx = game.diplo_idx + 1
          /\ game'.diplo_results = game.diplo_results
    /\ (game.game_active /\ game.answered /\ game'.game_active
           /\ game'.current_idx = game.current_idx) =>
          game'.round_results = game.round_results
    /\ (game.diplo_active /\ game.diplo_answered /\ game'.diplo_active
           /\ game'.diplo_idx = game.diplo_idx) =>
          game'.diplo_results = game.diplo_results

(* C38: while a round is active on either page the recorded results number
   the current index plus one when the current question is answered, an
   answered question takes no second result, the index moves only by one
   and only from an answered question, it never passes the number of
   questions, and in the results phase it equals that number with one
   result per question *)
C38_QuestionsInOrderOnce == [](RoundInStep) /\ [][IndexStep]_vars

(* the results phase of a two-question Diplomacy round *)
C38_Witness ==
    /\ game.diplo_active /\ DiploPhase = "results"
    /\ Len(game.diplo_questions) = 2 /\ Len(game.diplo_results) = 2
    /\ game.diplo_idx = 2

(***************************************************************************)
(* Review claims.                                                          *)
(***************************************************************************)
(* record q without its id and staging timestamp *)
Body(q) == Pop(Pop(q[2], "staged_at"), "id")

(* the number of records of qs with body b *)
CountOf(qs, b) == Cardinality({i \in 1..Len(qs) : Body(qs[i]) = b})

(* C39: with no review-mode run staging at the same time, every question
   staged in the pending file is merged into the bank at most once, also
   when an approve run is killed between the rewrite of the bank and the
   unlink and approve is run again *)
C39_StagedMergedAtMostOnce ==
    (bankFile.data # Unparsable /\ procs.stage.pc = "start") =>
        \A i \in 1..Len(load_questions(pend0)) :
            LET b == Body(load_questions(pend0)[i])
            IN  CountOf(Bank, b) - CountOf(load_questions(bank0), b)
                    <= CountOf(load_questions(pend0), b)

(* every question the finished stage_for_review call staged is in the
   pending file or in the bank *)
StagedKept ==
    \A i \in 1..Len(procs.stage.questions) :
        LET b == Body(procs.stage.questions[i])
        IN  CountOf(Pending, b) + CountOf(Bank, b) > 0

(* C40 as stated: once stage_for_review has reported its questions staged,
   each of them is in the pending file or in the bank, whatever the
   interleaving with approve runs *)
C40_NoStagedQuestionLost ==
    (bankFile.data # Unparsable /\ procs.stage.pc = "done") => StagedKept

(* C40: when the stage_for_review call and the approve_pending calls on the
   same pending file are not under way at the same time, each question that
   stage_for_review reported as staged is afterwards in the pending file or
   in the bank *)
C40_NoLossWithoutOverlap ==
    (bankFile.data # Unparsable /\ procs.stage.pc = "done" /\ ~procs.overlap)
        => StagedKept

(* an approve run after the staging call has merged the staged questions
   and deleted the pending file *)
C40_Witness ==
    /\ procs.stage.pc = "done" /\ ~procs.overlap
    /\ Len(procs.stage.questions) = 2
    /\ procs.approve.pc = "idle" /\ ~procs.approve.killed
    /\ procs.approve.ret = Len(load_questions(pend0)) + 2
    /\ ~pendingFile.exists
    /\ StagedKept

=============================================================================
